---------------------------- MODULE Spec2Model ----------------------------
(***************************************************************************)
(* A model of the Quickbrush generation request of wizzlethorpe-foundry:   *)
(* the stored account settings (WizzlethorpeAPI), the generation dialog    *)
(* (QuickbrushDialog) and the request QuickbrushDialog._updateObject runs, *)
(* with the direct client (OpenAIClient / ImageGenerator) and the brokered *)
(* client (WizzlethorpeAPI.generate).                                      *)
(*                                                                         *)
(* JavaScript strings whose content matters (trim, base64) are sequences   *)
(* of one-character strings; fixed messages are TLA+ strings.  An awaited  *)
(* network call is two steps, its issue and its response, so that other    *)
(* handlers (settings changes, link and unlink) interleave with a request  *)
(* up to its last read of a setting.                                       *)
(***************************************************************************)
EXTENDS Integers, Sequences, FiniteSets, TLC

\* ------------------------------------------------------------------ bounds

\* Longest pre-filled reference list handed to the QuickbrushDialog constructor.
MaxPrefill == 5

\* Requests submitted side by side (the dialog closes at the submit, so the
\* next one can be submitted while the first still runs).
NumOverlapping == 2

\* Longest reference list of a synthesis request under construction.
MaxProbeReferences == 2

\* The longest image payload put through the codec.
MaxPayloadLen == 4

\* maxAttempts of pollForLinkCompletion (120 where the caller gives none).
MaxAttempts == 3

\* loadCocktailData calls that can run side by side.
NumLoads == 2

\* The most items a response of the import endpoint lists.
MaxItems == 2

\* ------------------------------------------------------- program constants

\* _pickReferenceImage: if (this.referenceImages.length < 4)
MaxReferenceImages == 4

\* canUseServerGeneration: account.tierCents >= 500
AlchemistCents == 500

\* Tiers an account can hold, in cents, either side of the one threshold the
\* request reads: Apprentice (300) and Alchemist (500).
TierCents == {300, 500}

\* ------------------------------------------------------------ value spaces

\* The stored account info: '' (the setting's default) or the user's JSON.
NoAccount == [empty |-> TRUE]
Accounts == {[tierCents |-> t] : t \in TierCents}

Tokens == {"tok"}
ApiKeys == {"sk-key"}
ImagePaths == {"a.png"}
Targets == {"none", "actor"}

Blank == << >>
\* Texts a form field or a completion can hold: empty, whitespace, padded text.
Texts == {Blank, <<" ">>, <<" ", "d">>}

VARIABLES
    wizzlethorpeToken,     \* setting 'wizzlethorpeToken' ('' = none)
    wizzlethorpeAccount,   \* setting 'wizzlethorpeAccount' ('' = none)
    openaiApiKey,          \* setting 'openaiApiKey' ('' = none)
    useServerMode,         \* setting 'useServerMode'
    linkOp,                \* position of the running link / unlink operation
    QuickbrushCore,        \* the cached core library handle (null until loaded)
    pc,                    \* position of the dialog and of its request
    referenceImages,       \* QuickbrushDialog.referenceImages
    targetDocument,        \* QuickbrushDialog.targetDocument
    formData,              \* the submitted form (auto_update_image), once accepted
    mode,                  \* the request's locals shouldUseAPI, shouldUseBYOKAPI, ...
    convIndex,             \* convertImagesToBase64: images handled so far
    base64ReferenceImages, \* the converted reference images
    imageDescription,      \* generateDescription's imageDescription
    refinedDescription,    \* the refined description
    base64Image,           \* the generated image, base64
    err,                   \* the error the request's catch block received
    notifications,         \* ui.notifications raised since the latest submit
    calls,                 \* network calls issued since the latest submit
    inflight,              \* network calls awaiting their response
    saved,                 \* persistence steps done by the request
    overlapping,           \* requests running side by side: position and locals
    imports,               \* import() calls of loadQuickbrushCore: issued, failed
    journals,              \* game.journal: the gallery journals and their pages
    probe,                 \* a synthesis request under construction
    cocktailData,          \* BixbysCocktails.cocktailData (null until loaded)
    loads,                 \* loadCocktailData calls: position and what they returned
    worldItems,            \* game.items: the items of the world, by id
    lastImport             \* the latest import run: its data and its counts

vars == << wizzlethorpeToken, wizzlethorpeAccount, openaiApiKey, useServerMode,
           linkOp, QuickbrushCore, pc, referenceImages, targetDocument, formData,
           mode, convIndex, base64ReferenceImages, imageDescription,
           refinedDescription, base64Image, err, notifications, calls, inflight,
           saved, overlapping, imports, journals, probe, cocktailData, loads,
           worldItems, lastImport >>

settingsVars == << wizzlethorpeToken, wizzlethorpeAccount, openaiApiKey,
                   useServerMode, linkOp >>

requestVars == << pc, referenceImages, targetDocument, formData, mode, convIndex,
                  base64ReferenceImages, imageDescription, refinedDescription,
                  base64Image, err, notifications, calls, inflight, saved >>

overlapVars == << overlapping, imports, journals >>

\* What the dialog's request and the settings handlers leave alone.
otherVars == << overlapping, imports, journals, probe, cocktailData, loads,
               worldItems, lastImport >>

bixbyVars == << cocktailData, loads, worldItems, lastImport >>

\* ----------------------------------------------------------------- strings

\* String.prototype.trim over the modelled alphabet (" " is the whitespace).
RECURSIVE TrimStart(_)
TrimStart(s) ==
    IF s = << >> THEN << >>
    ELSE IF Head(s) = " " THEN TrimStart(Tail(s)) ELSE s

RECURSIVE TrimEnd(_)
TrimEnd(s) ==
    IF s = << >> THEN << >>
    ELSE IF s[Len(s)] = " " THEN TrimEnd(SubSeq(s, 1, Len(s) - 1)) ELSE s

Trim(s) == TrimEnd(TrimStart(s))

\* --------------------------------------------------------- WizzlethorpeAPI

\* isLinked answering from the stored account information in place of the
\* token.
isLinkedByAccount == wizzlethorpeAccount # NoAccount

isLinked == wizzlethorpeToken # ""

getLinkedAccount == wizzlethorpeAccount

getToken == wizzlethorpeToken

\* canUseServerGeneration with the tier compared by > in place of >=.
canUseServerGenerationAboveAlchemist ==
    IF getLinkedAccount = NoAccount THEN FALSE
    ELSE getLinkedAccount.tierCents > AlchemistCents

canUseServerGeneration ==
    IF getLinkedAccount = NoAccount THEN FALSE
    ELSE getLinkedAccount.tierCents >= AlchemistCents

\* ------------------------------------------- the generation-mode decision

shouldUseAPI == isLinked /\ (canUseServerGeneration /\ useServerMode)

shouldUseBYOKAPI == isLinked /\ ~shouldUseAPI /\ openaiApiKey # ""

shouldUseLocalBYOK == ~isLinked /\ openaiApiKey # ""

NoMode == [shouldUseAPI |-> FALSE, shouldUseBYOKAPI |-> FALSE,
           shouldUseLocalBYOK |-> FALSE, openaiApiKey |-> ""]

\* The locals of _updateObject that outlive the mode decision.
CurrentMode == [shouldUseAPI |-> shouldUseAPI, shouldUseBYOKAPI |-> shouldUseBYOKAPI,
                shouldUseLocalBYOK |-> shouldUseLocalBYOK,
                openaiApiKey |-> openaiApiKey]

\* Messages are sequences of strings: a fixed text, or a prefix and the text
\* interpolated into it.
MsgNoDescription == <<"Please provide a description for your image.">>
MsgNoName == <<"Please provide a name for your image.">>
MsgNoAccountNoKey == <<"Please link your Wizzlethorpe Labs account or configure an OpenAI API key in module settings.">>
MsgNeedsAlchemist == <<"Server-side generation requires an Alchemist subscription. Please add an OpenAI API key for BYOK mode.">>
MsgGenerating == <<"Generating image... This may take 30-60 seconds. You'll be notified when it's ready!">>
MsgMaxReferences == <<"Maximum 4 reference images allowed">>

Note(level, message) == [level |-> level, message |-> message]

\* The notifications of the branch taken when no generation method applies.
UnconfiguredNotifications ==
    IF ~isLinked /\ openaiApiKey = "" THEN {Note("error", MsgNoAccountNoKey)}
    ELSE IF isLinked /\ ~canUseServerGeneration /\ openaiApiKey = ""
         THEN {Note("error", MsgNeedsAlchemist)}
         ELSE {}

\* ------------------------------------------------------------------ errors

Error(message) == [name |-> "Error", message |-> message]

\* What fetch rejects with when the transport fails.
FetchFailed == [name |-> "TypeError", message |-> <<"Failed to fetch">>]

\* What atob throws on a string that is not base64.
InvalidCharacter ==
    [name |-> "InvalidCharacterError",
     message |-> <<"The string to be decoded is not correctly encoded.">>]

Threw(error) == [threw |-> TRUE, error |-> error]
Returned(value) == [threw |-> FALSE, value |-> value]

\* ------------------------------------------------------------ OpenAIClient

StatusText == "Bad Request"
ProviderText == "provider says no"

\* The bodies a non-2xx response can carry.
ErrorBodies == {"unparsable", "noMessage", "message"}

\* error.error?.message || response.statusText, the body parsed with the
\* statusText fallback of response.json().catch(...).
ProviderMessage(body) ==
    IF body = "message" THEN ProviderText ELSE StatusText

\* The responses of POST /chat/completions.
ChatResponses ==
    {[kind |-> "throw"]}
    \cup {[kind |-> "error", body |-> b] : b \in ErrorBodies}
    \cup {[kind |-> "ok", choices |-> FALSE]}
    \cup {[kind |-> "ok", choices |-> TRUE, content |-> c] : c \in Texts}

\* _chatCompletion (and _imageGeneration, the same code on another URL): the
\* parsed body, or the error thrown.
_chatCompletion(resp) ==
    IF resp.kind = "throw" THEN Threw(FetchFailed)
    ELSE IF resp.kind = "error"
         THEN Threw(Error(<<"OpenAI API error: ", ProviderMessage(resp.body)>>))
         ELSE Returned(resp)

Sentinel == <<"No reference images provided.">>

\* The reference-image call with the catch left out: its error is thrown on.
DescribeReferenceImagesUncaught(resp) ==
    LET r == _chatCompletion(resp)
    IN  IF r.threw THEN r
        ELSE IF ~r.value.choices THEN Returned(Sentinel)
        ELSE IF r.value.content = Blank THEN Returned(Sentinel)
        ELSE Returned(r.value.content)

\* generateDescription, the try / catch around the reference-image call:
\* the image description the refinement call is given.
DescribeReferenceImages(resp) ==
    LET r == _chatCompletion(resp)
    IN  IF r.threw THEN Returned(Sentinel)
        ELSE IF ~r.value.choices THEN Returned(Sentinel)
        ELSE IF r.value.content = Blank THEN Returned(Sentinel)
        ELSE Returned(r.value.content)

\* The refinement result with the check for an empty text left out.
ParseDescriptionUnchecked(resp) ==
    LET r == _chatCompletion(resp)
    IN  IF r.threw THEN r
        ELSE IF ~r.value.choices
             THEN Threw(Error(<<"No response from OpenAI API.">>))
        ELSE Returned(Trim(r.value.content))

\* generateDescription after the refinement call: the description, or the
\* error thrown.
ParseDescription(resp) ==
    LET r == _chatCompletion(resp)
    IN  IF r.threw THEN r
        ELSE IF ~r.value.choices
             THEN Threw(Error(<<"No response from OpenAI API.">>))
        ELSE IF Trim(r.value.content) = Blank
             THEN Threw(Error(<<"Parsed description is empty.">>))
        ELSE Returned(Trim(r.value.content))

\* ------------------------------------------------------------ binary codec

B64Alphabet ==
    << "A", "B", "C", "D", "E", "F", "G", "H", "I", "J", "K", "L", "M", "N", "O", "P",
       "Q", "R", "S", "T", "U", "V", "W", "X", "Y", "Z", "a", "b", "c", "d", "e", "f",
       "g", "h", "i", "j", "k", "l", "m", "n", "o", "p", "q", "r", "s", "t", "u", "v",
       "w", "x", "y", "z", "0", "1", "2", "3", "4", "5", "6", "7", "8", "9", "+", "/" >>

IsB64Char(c) == \E i \in 1..64 : B64Alphabet[i] = c

B64Index(c) == (CHOOSE i \in 1..64 : B64Alphabet[i] = c) - 1

\* atob, first step: a string whose length is a multiple of 4 loses one or two
\* trailing "=".
StripPadding(s) ==
    IF Len(s) > 0 /\ Len(s) % 4 = 0 /\ s[Len(s)] = "="
    THEN IF s[Len(s) - 1] = "="
         THEN SubSeq(s, 1, Len(s) - 2)
         ELSE SubSeq(s, 1, Len(s) - 1)
    ELSE s

RECURSIVE B64Decode(_)
\* The bytes of unpadded base64 data; the bits left over at the end are dropped.
B64Decode(s) ==
    IF Len(s) = 0 THEN << >>
    ELSE IF Len(s) >= 4
    THEN LET n == B64Index(s[1]) * 262144 + B64Index(s[2]) * 4096
                  + B64Index(s[3]) * 64 + B64Index(s[4])
         IN  << n \div 65536, (n \div 256) % 256, n % 256 >>
             \o B64Decode(SubSeq(s, 5, Len(s)))
    ELSE IF Len(s) = 3
    THEN LET n == (B64Index(s[1]) * 4096 + B64Index(s[2]) * 64 + B64Index(s[3])) \div 4
         IN  << n \div 256, n % 256 >>
    ELSE << (B64Index(s[1]) * 64 + B64Index(s[2])) \div 16 >>

\* atob and the charCodeAt loop that follows it: the bytes, or the exception.
Atob(s) ==
    LET data == StripPadding(s)
    IN  IF Len(data) % 4 = 1 \/ \E i \in 1..Len(data) : ~IsB64Char(data[i])
        THEN Threw(InvalidCharacter)
        ELSE Returned(B64Decode(data))

RECURSIVE Btoa(_)
\* FileReader.readAsDataURL, the part after the comma: the bytes in base64.
Btoa(bytes) ==
    IF Len(bytes) = 0 THEN << >>
    ELSE IF Len(bytes) >= 3
    THEN LET n == bytes[1] * 65536 + bytes[2] * 256 + bytes[3]
         IN  << B64Alphabet[(n \div 262144) + 1], B64Alphabet[((n \div 4096) % 64) + 1],
                B64Alphabet[((n \div 64) % 64) + 1], B64Alphabet[(n % 64) + 1] >>
             \o Btoa(SubSeq(bytes, 4, Len(bytes)))
    ELSE IF Len(bytes) = 2
    THEN LET n == (bytes[1] * 256 + bytes[2]) * 4
         IN  << B64Alphabet[(n \div 4096) + 1], B64Alphabet[((n \div 64) % 64) + 1],
                B64Alphabet[(n % 64) + 1], "=" >>
    ELSE LET n == bytes[1] * 16
         IN  << B64Alphabet[(n \div 64) + 1], B64Alphabet[(n % 64) + 1], "=", "=" >>

\* String(undefined), what atob makes of a missing field.
Undefined == << "u", "n", "d", "e", "f", "i", "n", "e", "d" >>

\* String(null), what atob makes of a field that is null.
Null == << "n", "u", "l", "l" >>

\* What atob is given when a 2xx body of the backend has no image: the field
\* is missing, null, or the empty string.
AbsentPayloads == {Undefined, Null, Blank}

\* Image payloads a response can carry: canonical, unpadded, not base64.
B64Payloads == { << "Q", "Q", "=", "=" >>, << "Q", "R" >>, << "Q", "!", "=", "=" >> }

\* ------------------------------------------------- image synthesis (direct)

\* The responses of POST /images/generations and /images/edits; an empty
\* b64_json stands for a body without the field.
ImageResponses ==
    {[kind |-> "throw"]}
    \cup {[kind |-> "error", body |-> b] : b \in ErrorBodies}
    \cup {[kind |-> "ok", b64_json |-> p] : p \in B64Payloads \cup {Blank}}

\* OpenAIClient.generateImage / _imageEdit: the base64 payload, or the error.
ClientGenerateImage(resp) ==
    LET r == _chatCompletion(resp)
    IN  IF r.threw THEN r
        ELSE IF r.value.b64_json = Blank
             THEN Threw(Error(<<"No image data returned from OpenAI API.">>))
        ELSE Returned(r.value.b64_json)

\* ImageGenerator.generateImage taking a payload that does not decode for an
\* empty image.
GeneratorGenerateImageLenient(resp) ==
    LET r == ClientGenerateImage(resp)
    IN  IF r.threw THEN r
        ELSE IF Atob(r.value).threw THEN Returned(<< >>)
        ELSE Atob(r.value)

\* ImageGenerator.generateImage: the bytes of the image blob, or the error.
GeneratorGenerateImage(resp) ==
    LET r == ClientGenerateImage(resp)
    IN  IF r.threw THEN r ELSE Atob(r.value)

\* ------------------------------------------------ WizzlethorpeAPI.generate

ServerText == "Weekly limit reached"

\* The responses of POST /api/generate; a body that is not JSON comes with a
\* 2xx status or without.
GenerateResponses ==
    {[kind |-> "throw"]}
    \cup {[kind |-> "badjson", ok |-> b] : b \in BOOLEAN}
    \cup {[kind |-> "error", error |-> d, message |-> m] :
             d \in {"subscription_required", "quota_exceeded", "server_error"},
             m \in {"", ServerText}}
    \cup {[kind |-> "ok", image |-> p] : p \in B64Payloads \cup AbsentPayloads}

\* data.message || fallback
MessageOr(message, fallback) == IF message = "" THEN fallback ELSE message

\* The error of a non-2xx response with the discriminant's own text only.
GenerateErrorByDiscriminant(data) ==
    IF data.error = "subscription_required"
    THEN Error(<<"Subscription required for this feature">>)
    ELSE IF data.error = "quota_exceeded"
    THEN Error(<<"Weekly quota exceeded">>)
    ELSE Error(<<MessageOr(data.message, "Generation failed")>>)

\* The error of a non-2xx response of the backend.
GenerateError(data) ==
    IF data.error = "subscription_required"
    THEN Error(<<MessageOr(data.message, "Subscription required for this feature")>>)
    ELSE IF data.error = "quota_exceeded"
    THEN Error(<<MessageOr(data.message, "Weekly quota exceeded")>>)
    ELSE Error(<<MessageOr(data.message, "Generation failed")>>)

\* WizzlethorpeAPI.generate after its fetch: the parsed body, or the error.
GenerateResult(resp) ==
    IF resp.kind = "throw" THEN Threw(FetchFailed)
    ELSE IF resp.kind = "badjson"
         THEN Threw([name |-> "SyntaxError", message |-> <<"Unexpected token">>])
    ELSE IF resp.kind = "error" THEN Threw(GenerateError(resp))
    ELSE Returned(resp)

\* -------------------------------------------------------------------- Init

Idle == [op |-> "idle"]
NoError == [none |-> TRUE]
NoForm == [auto_update_image |-> FALSE]

ResetRequest ==
    /\ formData' = NoForm
    /\ mode' = NoMode
    /\ convIndex' = 0
    /\ base64ReferenceImages' = << >>
    /\ imageDescription' = << >>
    /\ refinedDescription' = << >>
    /\ base64Image' = << >>
    /\ err' = NoError
    /\ notifications' = {}
    /\ calls' = << >>
    /\ inflight' = {}
    /\ saved' = {}

InitDialog ==
    /\ wizzlethorpeToken = ""
    /\ wizzlethorpeAccount = NoAccount
    /\ openaiApiKey = ""
    /\ useServerMode = TRUE
    /\ linkOp = Idle
    /\ QuickbrushCore = "null"
    /\ pc = "idle"
    /\ referenceImages = << >>
    /\ targetDocument = "none"
    /\ formData = NoForm
    /\ mode = NoMode
    /\ convIndex = 0
    /\ base64ReferenceImages = << >>
    /\ imageDescription = << >>
    /\ refinedDescription = << >>
    /\ base64Image = << >>
    /\ err = NoError
    /\ notifications = {}
    /\ calls = << >>
    /\ inflight = {}
    /\ saved = {}

\* No request runs beside the dialog's, nothing is imported, and the world
\* has no gallery journal yet.
NotSubmitted == [pc |-> "none", journal |-> 0, page |-> 0, content |-> << >>]

InitOverlap ==
    /\ overlapping = [r \in 1..NumOverlapping |-> NotSubmitted]
    /\ imports = [issued |-> 0, failed |-> 0]
    /\ journals = << >>

NoProbe == [stage |-> "none"]

\* Bixby's Cocktails: nothing loaded, no call running, no item in the world
\* and no import run yet.
NoCocktailData == [null |-> TRUE]
NotCalled == [pc |-> "none"]
NoImport == [run |-> FALSE]

InitBixby ==
    /\ cocktailData = NoCocktailData
    /\ loads = [l \in 1..NumLoads |-> NotCalled]
    /\ worldItems = << >>
    /\ lastImport = NoImport

Init ==
    /\ InitDialog
    /\ InitOverlap
    /\ InitBixby
    /\ probe = NoProbe

\* ------------------------------------------------- settings, link and unlink

\* A request reads the settings at its submit (the locals of _updateObject)
\* and the token once more when it calls the backend (generate), which follows
\* the conversion of its reference images; no later step of it reads a
\* setting.  A change of a setting past its last read commutes with every
\* step of the request, so the GM's edits are taken at the positions where
\* the next read can still see them.
LocalsUnread == pc \in {"idle", "dialog"}
TokenUnread == pc \in {"idle", "dialog", "convertWait"}

\* The GM edits the 'openaiApiKey' setting in the module settings.
SetOpenaiApiKey(k) ==
    /\ LocalsUnread
    /\ openaiApiKey # k
    /\ openaiApiKey' = k
    /\ UNCHANGED << wizzlethorpeToken, wizzlethorpeAccount, useServerMode, linkOp,
                    QuickbrushCore >>
    /\ UNCHANGED requestVars
    /\ UNCHANGED otherVars

\* The GM toggles the 'useServerMode' setting.
SetUseServerMode ==
    /\ LocalsUnread
    /\ useServerMode' = ~useServerMode
    /\ UNCHANGED << wizzlethorpeToken, wizzlethorpeAccount, openaiApiKey, linkOp,
                    QuickbrushCore >>
    /\ UNCHANGED requestVars
    /\ UNCHANGED otherVars

\* pollForLinkCompletion, status 'completed' with a token: the token is stored.
\* The account dialog offers linking while no account is linked.
LinkStoreToken(user) ==
    /\ TokenUnread
    /\ linkOp = Idle
    /\ ~isLinked
    /\ wizzlethorpeToken' = "tok"
    /\ linkOp' = [op |-> "link", user |-> user]
    /\ UNCHANGED << wizzlethorpeAccount, openaiApiKey, useServerMode, QuickbrushCore >>
    /\ UNCHANGED requestVars
    /\ UNCHANGED otherVars

\* pollForLinkCompletion: the account info is stored after the token.
LinkStoreAccount ==
    /\ linkOp.op = "link"
    /\ wizzlethorpeAccount' = linkOp.user
    /\ linkOp' = Idle
    /\ UNCHANGED << wizzlethorpeToken, openaiApiKey, useServerMode, QuickbrushCore >>
    /\ UNCHANGED requestVars
    /\ UNCHANGED otherVars

\* unlink: the token is cleared first.  The account dialog offers unlinking
\* while an account is linked.
UnlinkClearToken ==
    /\ TokenUnread
    /\ linkOp = Idle
    /\ isLinked
    /\ wizzlethorpeToken' = ""
    /\ linkOp' = [op |-> "unlink"]
    /\ UNCHANGED << wizzlethorpeAccount, openaiApiKey, useServerMode, QuickbrushCore >>
    /\ UNCHANGED requestVars
    /\ UNCHANGED otherVars

\* unlink: the account info is cleared after the token.
UnlinkClearAccount ==
    /\ linkOp.op = "unlink"
    /\ wizzlethorpeAccount' = NoAccount
    /\ linkOp' = Idle
    /\ UNCHANGED << wizzlethorpeToken, openaiApiKey, useServerMode, QuickbrushCore >>
    /\ UNCHANGED requestVars
    /\ UNCHANGED otherVars

\* ------------------------------------------------------------------ dialog

RECURSIVE SeqsUpTo(_, _)
\* The sequences over S of length at most n.
SeqsUpTo(S, n) ==
    IF n = 0 THEN {<< >>}
    ELSE LET shorter == SeqsUpTo(S, n - 1)
         IN shorter \cup {Append(q, x) : q \in shorter, x \in S}

\* new QuickbrushDialog(options): the journal, actor, item and directory entry
\* points, and any caller of the exported class, hand it a reference list.
NewDialog(images, target) ==
    /\ pc \in {"idle", "dialog", "done", "failed"}
    /\ pc' = "dialog"
    /\ referenceImages' = images
    /\ targetDocument' = target
    /\ ResetRequest
    /\ UNCHANGED settingsVars
    /\ UNCHANGED otherVars
    /\ UNCHANGED QuickbrushCore

\* _pickReferenceImage and its FilePicker callback.
PickReferenceImage(path) ==
    /\ pc = "dialog"
    /\ IF Len(referenceImages) < MaxReferenceImages
       THEN /\ referenceImages' = Append(referenceImages, path)
            /\ UNCHANGED notifications
       ELSE /\ notifications' = notifications \cup {Note("warn", MsgMaxReferences)}
            /\ UNCHANGED referenceImages
    /\ UNCHANGED << pc, targetDocument, formData, mode, convIndex,
                    base64ReferenceImages, imageDescription, refinedDescription,
                    base64Image, err, calls, inflight, saved >>
    /\ UNCHANGED settingsVars
    /\ UNCHANGED otherVars
    /\ UNCHANGED QuickbrushCore

\* Array.prototype.splice(index, 1), index counted from 1 here.
Splice1(s, index) ==
    SubSeq(s, 1, index - 1) \o SubSeq(s, index + 1, Len(s))

\* The '.remove-reference-image' click handler.
RemoveReferenceImage(index) ==
    /\ pc = "dialog"
    /\ index \in 1..Len(referenceImages)
    /\ referenceImages' = Splice1(referenceImages, index)
    /\ UNCHANGED << pc, targetDocument, formData, mode, convIndex,
                    base64ReferenceImages, imageDescription, refinedDescription,
                    base64Image, err, notifications, calls, inflight, saved >>
    /\ UNCHANGED settingsVars
    /\ UNCHANGED otherVars
    /\ UNCHANGED QuickbrushCore

\* The forms a submit can carry; the dialog offers the auto_update_image
\* box for a target document.
FormDatas ==
    [text : Texts, image_name : {Blank, <<"n">>},
     auto_update_image : IF targetDocument = "none" THEN {FALSE} ELSE BOOLEAN]

MsgServerMode == <<"Generating with Wizzlethorpe Labs...">>
MsgBYOKMode == <<"Generating with your API key...">>
MsgStep1 == <<"Step 1/2: Refining description...">>
MsgStep2 == <<"Step 2/2: Generating image...">>
MsgCoreFailed == <<"Wizzlethorpe Labs: Failed to load Quickbrush core library. Please check your module installation.">>
MsgSaved == <<"Image generated and saved successfully! View it in the Quickbrush Gallery journal.">>
MsgImageSet == <<"Image generated and set as the document image!">>
MsgImageNotSet == <<"Image generated but failed to update the document image.">>

\* game.i18n.format('QUICKBRUSH.Notifications.Error', { error: error.message })
NoteError(error) ==
    Note("error", <<"QUICKBRUSH.Notifications.Error">> \o error.message)

\* What a piece of _updateObject leaves behind when it reaches its next await
\* or its end: the position, the calls issued and in flight, the error caught,
\* the notifications raised, and generateDescription's imageDescription.
Effect(p, cs, fl, error, notes, imageDesc) ==
    [pc |-> p, calls |-> cs, inflight |-> fl, err |-> error,
     notifications |-> notes, imageDescription |-> imageDesc]

Apply(e) ==
    /\ pc' = e.pc
    /\ calls' = e.calls
    /\ inflight' = e.inflight
    /\ err' = e.err
    /\ notifications' = e.notifications
    /\ imageDescription' = e.imageDescription

\* The catch block sending the failed call of a provider or of the backend
\* once more before it gives up.
CatchAndRetry(error, notes, cs, fl) ==
    IF pc \in {"refineWait", "synthWait", "generateWait"}
       /\ \A i \in 1..(Len(cs) - 1) : cs[i].op # cs[Len(cs)].op
    THEN Effect(pc, Append(cs, cs[Len(cs)]), fl \cup {cs[Len(cs)].op}, NoError, notes,
                imageDescription)
    ELSE Effect("failed", cs, fl, error, notes \cup {NoteError(error)}, imageDescription)

\* The catch block of _updateObject.
Catch(error, notes, cs, fl) ==
    Effect("failed", cs, fl, error, notes \cup {NoteError(error)}, imageDescription)

\* A fetch is issued and awaited at position p.
Issue(call, p, notes, cs, fl, imageDesc) ==
    Effect(p, Append(cs, call), fl \cup {call.op}, NoError, notes, imageDesc)

\* generateDescription: the refinement call, with the image description.
IssueRefine(key, imageDesc, notes, cs, fl) ==
    Issue([op |-> "chat.refine", bearer |-> key,
           reference_images_description |-> imageDesc],
          "refineWait", notes, cs, fl, imageDesc)

\* generateDescription sending the reference-image call and the refinement
\* call together, without awaiting the first.
StartDescriptionTogether(key, refs64, notes, cs, fl) ==
    IF Len(refs64) > 0
    THEN Effect("describeImagesWait",
                cs \o << [op |-> "chat.describeImages", bearer |-> key,
                          images |-> Len(refs64)],
                         [op |-> "chat.refine", bearer |-> key,
                          reference_images_description |-> Sentinel] >>,
                fl \cup {"chat.describeImages", "chat.refine"}, NoError,
                notes \cup {Note("info", MsgStep1)}, Sentinel)
    ELSE IssueRefine(key, Sentinel, notes \cup {Note("info", MsgStep1)}, cs, fl)

\* getDescription -> generateDescription up to its first await.
StartDescription(key, refs64, notes, cs, fl) ==
    IF Len(refs64) > 0
    THEN Issue([op |-> "chat.describeImages", bearer |-> key, images |-> Len(refs64)],
               "describeImagesWait", notes \cup {Note("info", MsgStep1)}, cs, fl,
               Sentinel)
    ELSE IssueRefine(key, Sentinel, notes \cup {Note("info", MsgStep1)}, cs, fl)

\* WizzlethorpeAPI.generate sending its request whether a token is stored or
\* not.
StartGenerateUnchecked(apiKey, refs64, notes, cs, fl) ==
    Issue([op |-> "api.generate", bearer |-> getToken, apiKey |-> apiKey,
           referenceImages |-> Len(refs64)],
          "generateWait", notes, cs, fl, imageDescription)

\* WizzlethorpeAPI.generate up to its fetch; apiKey '' stands for a body
\* without the field.
StartGenerate(apiKey, refs64, notes, cs, fl) ==
    IF getToken = ""
    THEN Catch(Error(<<"No Wizzlethorpe account linked">>), notes, cs, fl)
    ELSE Issue([op |-> "api.generate", bearer |-> getToken, apiKey |-> apiKey,
                referenceImages |-> Len(refs64)],
               "generateWait", notes, cs, fl, imageDescription)

\* The generation method with the local key put in the body of the pooled
\* call as well.
AfterConversionKeyInBoth(m, refs64, notes, cs, fl) ==
    IF m.shouldUseAPI
    THEN StartGenerate(m.openaiApiKey, refs64,
                       notes \cup {Note("info", MsgServerMode)}, cs, fl)
    ELSE IF m.shouldUseBYOKAPI
    THEN StartGenerate(m.openaiApiKey, refs64,
                       notes \cup {Note("info", MsgBYOKMode)}, cs, fl)
    ELSE IF QuickbrushCore = "null"
    THEN Issue([op |-> "core.import"], "importWait", notes, cs, fl, imageDescription)
    ELSE StartDescription(m.openaiApiKey, refs64, notes, cs, fl)

\* The generation method with the brokered BYOK branch left out, so that a
\* linked account with a key goes to the provider directly.
AfterConversionBYOKDirect(m, refs64, notes, cs, fl) ==
    IF m.shouldUseAPI
    THEN StartGenerate("", refs64, notes \cup {Note("info", MsgServerMode)}, cs, fl)
    ELSE IF QuickbrushCore = "null"
    THEN Issue([op |-> "core.import"], "importWait", notes, cs, fl, imageDescription)
    ELSE StartDescription(m.openaiApiKey, refs64, notes, cs, fl)

\* _updateObject from the end of the conversion to its next await: the three
\* branches of the generation method.
AfterConversion(m, refs64, notes, cs, fl) ==
    IF m.shouldUseAPI
    THEN StartGenerate("", refs64, notes \cup {Note("info", MsgServerMode)}, cs, fl)
    ELSE IF m.shouldUseBYOKAPI
    THEN StartGenerate(m.openaiApiKey, refs64,
                       notes \cup {Note("info", MsgBYOKMode)}, cs, fl)
    ELSE IF QuickbrushCore = "null"
    THEN Issue([op |-> "core.import"], "importWait", notes, cs, fl, imageDescription)
    ELSE StartDescription(m.openaiApiKey, refs64, notes, cs, fl)

\* convertImagesToBase64: the fetch of the image at index i (from 1).
IssueImageFetch(i, notes, cs, fl) ==
    Issue([op |-> "image.fetch", path |-> referenceImages[i]],
          "convertWait", notes, cs, fl, imageDescription)

\* _updateObject after the image is in base64Image: atob, then the save begins.
AfterGeneration(b64, notes, cs, fl) ==
    IF Atob(b64).threw
    THEN Catch(Atob(b64).error, notes, cs, fl)
    ELSE Effect("folder", cs, fl, NoError, notes, imageDescription)

\* _updateObject up to its first await: validation, the mode decision, and
\* either the early return or the start of the request.
Submit(fd) ==
    /\ pc = "dialog"
    /\ UNCHANGED << referenceImages, targetDocument, convIndex,
                    base64ReferenceImages, refinedDescription, base64Image, saved >>
    /\ UNCHANGED settingsVars
    /\ UNCHANGED otherVars
    /\ UNCHANGED QuickbrushCore
    /\ IF Trim(fd.text) = Blank
       THEN /\ notifications' = {Note("warn", MsgNoDescription)}
            /\ UNCHANGED << pc, formData, mode, calls, inflight, err, imageDescription >>
       ELSE IF Trim(fd.image_name) = Blank
       THEN /\ notifications' = {Note("warn", MsgNoName)}
            /\ UNCHANGED << pc, formData, mode, calls, inflight, err, imageDescription >>
       ELSE IF ~shouldUseAPI /\ ~shouldUseBYOKAPI /\ ~shouldUseLocalBYOK
       THEN /\ notifications' = UnconfiguredNotifications
            /\ UNCHANGED << pc, formData, mode, calls, inflight, err, imageDescription >>
       ELSE /\ formData' = [auto_update_image |-> fd.auto_update_image]
            /\ mode' = CurrentMode
            /\ IF Len(referenceImages) > 0
               THEN Apply(IssueImageFetch(1, {Note("info", MsgGenerating)}, << >>, {}))
               ELSE Apply(AfterConversion(CurrentMode, << >>,
                                          {Note("info", MsgGenerating)}, << >>, {}))

ImageFetchOutcomes == {"ok", "notOk", "throws"}

\* The loop of convertImagesToBase64 without its continue and its catch: the
\* image is pushed whatever the fetch gave.
ConvertedImagesAll(images, path, outcome) == Append(images, path)

\* convertImagesToBase64, one turn of its loop after the fetch: a response
\* that is not ok, or anything thrown, skips the image.
ConvertedImages(images, path, outcome) ==
    IF outcome = "ok" THEN Append(images, path) ELSE images

ConvertResponse(outcome) ==
    /\ pc = "convertWait"
    /\ convIndex' = convIndex + 1
    /\ base64ReferenceImages' =
          ConvertedImages(base64ReferenceImages, referenceImages[convIndex + 1], outcome)
    /\ IF convIndex + 1 < Len(referenceImages)
       THEN Apply(IssueImageFetch(convIndex + 2, notifications, calls,
                                  inflight \ {"image.fetch"}))
       ELSE Apply(AfterConversion(mode, base64ReferenceImages', notifications, calls,
                                  inflight \ {"image.fetch"}))
    /\ UNCHANGED << referenceImages, targetDocument, formData, mode,
                    refinedDescription, base64Image, saved >>
    /\ UNCHANGED settingsVars
    /\ UNCHANGED otherVars
    /\ UNCHANGED QuickbrushCore

\* loadQuickbrushCore after its import.
ImportResponse(ok) ==
    /\ pc = "importWait"
    /\ IF ok
       THEN /\ QuickbrushCore' = "core"
            /\ Apply(StartDescription(mode.openaiApiKey, base64ReferenceImages,
                                      notifications, calls, inflight \ {"core.import"}))
       ELSE /\ UNCHANGED QuickbrushCore
            /\ Apply(Catch(FetchFailed, notifications \cup {Note("error", MsgCoreFailed)},
                           calls, inflight \ {"core.import"}))
    /\ UNCHANGED << referenceImages, targetDocument, formData, mode, convIndex,
                    base64ReferenceImages, refinedDescription, base64Image, saved >>
    /\ UNCHANGED settingsVars
    /\ UNCHANGED otherVars

\* The brokered pathway after WizzlethorpeAPI.generate's fetch.
GenerateResponse(resp) ==
    /\ pc = "generateWait"
    /\ LET r == GenerateResult(resp)
       IN  IF r.threw
           THEN /\ Apply(Catch(r.error, notifications, calls, inflight \ {"api.generate"}))
                /\ UNCHANGED << base64Image, refinedDescription >>
           ELSE /\ base64Image' = r.value.image
                /\ refinedDescription' = <<"d">>
                /\ Apply(AfterGeneration(r.value.image, notifications, calls,
                                         inflight \ {"api.generate"}))
    /\ UNCHANGED << referenceImages, targetDocument, formData, mode, convIndex,
                    base64ReferenceImages, saved >>
    /\ UNCHANGED settingsVars
    /\ UNCHANGED otherVars
    /\ UNCHANGED QuickbrushCore

\* generateDescription after the reference-image call.
DescribeImagesResponse(resp) ==
    /\ pc = "describeImagesWait"
    /\ LET r == DescribeReferenceImages(resp)
       IN  IF r.threw
           THEN Apply(Catch(r.error, notifications, calls,
                            inflight \ {"chat.describeImages"}))
           ELSE Apply(IssueRefine(mode.openaiApiKey, r.value, notifications, calls,
                                  inflight \ {"chat.describeImages"}))
    /\ UNCHANGED << referenceImages, targetDocument, formData, mode, convIndex,
                    base64ReferenceImages, refinedDescription, base64Image, saved >>
    /\ UNCHANGED settingsVars
    /\ UNCHANGED otherVars
    /\ UNCHANGED QuickbrushCore

\* OpenAIClient.generateImage up to its fetch: the edits endpoint with one
\* part per reference image, or the generations endpoint.
IssueSynthesis(key, refs64, notes, cs, fl) ==
    IF Len(refs64) > 0
    THEN Issue([op |-> "images.edits", bearer |-> key, parts |-> Len(refs64), n |-> 1],
               "synthWait", notes, cs, fl, imageDescription)
    ELSE Issue([op |-> "images.generations", bearer |-> key, parts |-> 0, n |-> 1],
               "synthWait", notes, cs, fl, imageDescription)

\* The local pathway after the refinement call: the description, then
\* generator.generateImage up to its fetch.
RefineResponse(resp) ==
    /\ pc = "refineWait"
    /\ LET r == ParseDescription(resp)
       IN  IF r.threw
           THEN /\ Apply(Catch(r.error, notifications, calls, inflight \ {"chat.refine"}))
                /\ UNCHANGED refinedDescription
           ELSE /\ refinedDescription' = r.value
                /\ Apply(IssueSynthesis(mode.openaiApiKey, base64ReferenceImages,
                                        notifications \cup {Note("info", MsgStep2)},
                                        calls, inflight \ {"chat.refine"}))
    /\ UNCHANGED << referenceImages, targetDocument, formData, mode, convIndex,
                    base64ReferenceImages, base64Image, saved >>
    /\ UNCHANGED settingsVars
    /\ UNCHANGED otherVars
    /\ UNCHANGED QuickbrushCore

SynthOps == {"images.edits", "images.generations"}

\* The local pathway after the synthesis call: the blob, its base64 through
\* FileReader.readAsDataURL, and the decoding for the save.
SynthResponse(resp) ==
    /\ pc = "synthWait"
    /\ LET r == GeneratorGenerateImage(resp)
       IN  IF r.threw
           THEN /\ Apply(Catch(r.error, notifications, calls, inflight \ SynthOps))
                /\ UNCHANGED base64Image
           ELSE /\ base64Image' = Btoa(r.value)
                /\ Apply(AfterGeneration(Btoa(r.value), notifications, calls,
                                         inflight \ SynthOps))
    /\ UNCHANGED << referenceImages, targetDocument, formData, mode, convIndex,
                    base64ReferenceImages, refinedDescription, saved >>
    /\ UNCHANGED settingsVars
    /\ UNCHANGED otherVars
    /\ UNCHANGED QuickbrushCore

\* ------------------------------------------------------------------- saving

Failure(what) == Error(<<what>>)

\* QuickbrushGallery.getOrCreateFolder: the folder is there, or is created,
\* or createDirectory throws.
FolderDone(outcome) ==
    /\ pc = "folder"
    /\ IF outcome = "createFailed"
       THEN Apply(Catch(Failure("createDirectory failed"), notifications, calls, inflight))
       ELSE Apply(Effect("upload", calls, inflight, NoError, notifications,
                         imageDescription))
    /\ UNCHANGED << referenceImages, targetDocument, formData, mode, convIndex,
                    base64ReferenceImages, refinedDescription, base64Image, saved >>
    /\ UNCHANGED settingsVars
    /\ UNCHANGED otherVars
    /\ UNCHANGED QuickbrushCore

\* FilePicker.upload of the decoded image.
UploadDone(ok) ==
    /\ pc = "upload"
    /\ IF ok
       THEN /\ saved' = saved \cup {<<"file", Atob(base64Image).value>>}
            /\ Apply(Effect("gallery", calls, inflight, NoError, notifications,
                            imageDescription))
       ELSE /\ UNCHANGED saved
            /\ Apply(Catch(Failure("upload failed"), notifications, calls, inflight))
    /\ UNCHANGED << referenceImages, targetDocument, formData, mode, convIndex,
                    base64ReferenceImages, refinedDescription, base64Image >>
    /\ UNCHANGED settingsVars
    /\ UNCHANGED otherVars
    /\ UNCHANGED QuickbrushCore

\* QuickbrushGallery.addToGallery, then the end of _updateObject or the update
\* of the target document.
GalleryDone(ok) ==
    /\ pc = "gallery"
    /\ IF ~ok
       THEN /\ UNCHANGED saved
            /\ Apply(Catch(Failure("gallery update failed"), notifications, calls,
                           inflight))
       ELSE /\ saved' = saved \cup {<<"gallery">>}
            /\ IF targetDocument # "none" /\ formData.auto_update_image
               THEN Apply(Effect("update", calls, inflight, NoError, notifications,
                                 imageDescription))
               ELSE Apply(Effect("done", calls, inflight, NoError,
                                 notifications \cup {Note("info", MsgSaved)},
                                 imageDescription))
    /\ UNCHANGED << referenceImages, targetDocument, formData, mode, convIndex,
                    base64ReferenceImages, refinedDescription, base64Image >>
    /\ UNCHANGED settingsVars
    /\ UNCHANGED otherVars
    /\ UNCHANGED QuickbrushCore

\* targetDocument.update({ img }) inside its own try / catch.
UpdateDone(ok) ==
    /\ pc = "update"
    /\ IF ok
       THEN /\ saved' = saved \cup {<<"img">>}
            /\ Apply(Effect("done", calls, inflight, NoError,
                            notifications \cup {Note("info", MsgImageSet)},
                            imageDescription))
       ELSE /\ UNCHANGED saved
            /\ Apply(Effect("done", calls, inflight, NoError,
                            notifications \cup {Note("warn", MsgImageNotSet)},
                            imageDescription))
    /\ UNCHANGED << referenceImages, targetDocument, formData, mode, convIndex,
                    base64ReferenceImages, refinedDescription, base64Image >>
    /\ UNCHANGED settingsVars
    /\ UNCHANGED otherVars
    /\ UNCHANGED QuickbrushCore

\* -------------------------------------------------------------------- Spec

Next ==
    \/ \E k \in ApiKeys \cup {""} : SetOpenaiApiKey(k)
    \/ SetUseServerMode
    \/ \E user \in Accounts : LinkStoreToken(user)
    \/ LinkStoreAccount
    \/ UnlinkClearToken
    \/ UnlinkClearAccount
    \/ \E images \in SeqsUpTo(ImagePaths, MaxPrefill), target \in Targets :
          NewDialog(images, target)
    \/ \E path \in ImagePaths : PickReferenceImage(path)
    \/ \E index \in 1..Len(referenceImages) : RemoveReferenceImage(index)
    \/ \E fd \in FormDatas : Submit(fd)
    \/ \E outcome \in ImageFetchOutcomes : ConvertResponse(outcome)
    \/ \E ok \in BOOLEAN : ImportResponse(ok)
    \/ \E resp \in GenerateResponses : GenerateResponse(resp)
    \/ \E resp \in ChatResponses : DescribeImagesResponse(resp)
    \/ \E resp \in ChatResponses : RefineResponse(resp)
    \/ \E resp \in ImageResponses : SynthResponse(resp)
    \/ \E outcome \in {"exists", "created", "createFailed"} : FolderDone(outcome)
    \/ \E ok \in BOOLEAN : UploadDone(ok)
    \/ \E ok \in BOOLEAN : GalleryDone(ok)
    \/ \E ok \in BOOLEAN : UpdateDone(ok)

Spec == Init /\ [][Next]_vars

\* ------------------------------------------------- overlapping requests
\* _updateObject closes the dialog before its first await, so a second
\* request can be submitted while the first runs.  Each request here is a
\* local one without reference images, followed through the operations on
\* what the requests share: the core handle, the gallery journal and its
\* Images page.  A document created or updated through the Foundry API is in
\* the local collections when the awaited call resolves.

Requests == 1..NumOverlapping

At(r, p) == overlapping[r].pc = p

Move(r, fields) == overlapping' = [overlapping EXCEPT ![r] = fields]

leaveDialogAlone ==
    /\ UNCHANGED settingsVars
    /\ UNCHANGED requestVars
    /\ UNCHANGED probe
    /\ UNCHANGED bixbyVars

\* _updateObject up to loadQuickbrushCore's import: the cached handle is
\* returned, or the import is called.
SubmitOverlapping(r) ==
    /\ At(r, "none")
    /\ IF QuickbrushCore # "null"
       THEN /\ Move(r, [overlapping[r] EXCEPT !.pc = "generating"])
            /\ UNCHANGED imports
       ELSE /\ Move(r, [overlapping[r] EXCEPT !.pc = "importing"])
            /\ imports' = [imports EXCEPT !.issued = @ + 1]
    /\ UNCHANGED << QuickbrushCore, journals >>
    /\ leaveDialogAlone

\* loadQuickbrushCore after its import: the handle is stored, or the error is
\* thrown on and the request ends in its catch.
ImportOverlapping(r, ok) ==
    /\ At(r, "importing")
    /\ IF ok
       THEN /\ QuickbrushCore' = "core"
            /\ Move(r, [overlapping[r] EXCEPT !.pc = "generating"])
            /\ UNCHANGED imports
       ELSE /\ UNCHANGED QuickbrushCore
            /\ Move(r, [overlapping[r] EXCEPT !.pc = "failed"])
            /\ imports' = [imports EXCEPT !.failed = @ + 1]
    /\ UNCHANGED journals
    /\ leaveDialogAlone

NewJournal == [about |-> 0, images |-> << >>]

\* ensureAboutPage up to its await: the page is created, or updated.
EnsureAboutPage(journal) == IF journal.about = 0 THEN "aboutCreate" ELSE "aboutUpdate"

\* The description, the image and its upload, then addToGallery up to its
\* first await: game.journal.find, and JournalEntry.create or
\* ensureAboutPage.
GeneratedOverlapping(r, ok) ==
    /\ At(r, "generating")
    /\ IF ~ok
       THEN Move(r, [overlapping[r] EXCEPT !.pc = "failed"])
       ELSE IF journals = << >>
       THEN Move(r, [overlapping[r] EXCEPT !.pc = "journalCreate"])
       ELSE Move(r, [overlapping[r] EXCEPT !.pc = EnsureAboutPage(journals[1]),
                                           !.journal = 1])
    /\ UNCHANGED << QuickbrushCore, imports, journals >>
    /\ leaveDialogAlone

\* JournalEntry.create resolves: the journal is in game.journal, and
\* ensureAboutPage runs up to its await.
JournalCreated(r) ==
    /\ At(r, "journalCreate")
    /\ journals' = Append(journals, NewJournal)
    /\ Move(r, [overlapping[r] EXCEPT !.pc = EnsureAboutPage(NewJournal),
                                      !.journal = Len(journals) + 1])
    /\ UNCHANGED << QuickbrushCore, imports >>
    /\ leaveDialogAlone

\* addToGallery from the entry to the await of page.update: the content read
\* now, the entry put before it.
UpdatePage(r, j, g, k) ==
    [overlapping[r] EXCEPT !.pc = "pageUpdate", !.page = k,
                           !.content = <<r>> \o g[j].images[k]]

\* ensureAboutPage resolves; addToGallery goes on to the Images page: found
\* and updated, or created.
AboutPageDone(r) ==
    /\ overlapping[r].pc \in {"aboutCreate", "aboutUpdate"}
    /\ LET j == overlapping[r].journal
           g == IF At(r, "aboutCreate")
                THEN [journals EXCEPT ![j].about = @ + 1]
                ELSE journals
       IN  /\ journals' = g
           /\ IF g[j].images = << >>
              THEN Move(r, [overlapping[r] EXCEPT !.pc = "pageCreate"])
              ELSE Move(r, UpdatePage(r, j, g, 1))
    /\ UNCHANGED << QuickbrushCore, imports >>
    /\ leaveDialogAlone

\* createEmbeddedDocuments resolves: the new Images page is in the journal.
PageCreated(r) ==
    /\ At(r, "pageCreate")
    /\ LET j == overlapping[r].journal
           g == [journals EXCEPT ![j].images = Append(@, << >>)]
       IN  /\ journals' = g
           /\ Move(r, UpdatePage(r, j, g, Len(g[j].images)))
    /\ UNCHANGED << QuickbrushCore, imports >>
    /\ leaveDialogAlone

\* page.update resolves: the page holds the content sent.
PageUpdated(r) ==
    /\ At(r, "pageUpdate")
    /\ journals' = [journals EXCEPT
                       ![overlapping[r].journal].images[overlapping[r].page] =
                           overlapping[r].content]
    /\ Move(r, [overlapping[r] EXCEPT !.pc = "done"])
    /\ UNCHANGED << QuickbrushCore, imports >>
    /\ leaveDialogAlone

OverlapNext ==
    \/ \E r \in Requests : SubmitOverlapping(r)
    \/ \E r \in Requests, ok \in BOOLEAN : ImportOverlapping(r, ok)
    \/ \E r \in Requests, ok \in BOOLEAN : GeneratedOverlapping(r, ok)
    \/ \E r \in Requests : JournalCreated(r)
    \/ \E r \in Requests : AboutPageDone(r)
    \/ \E r \in Requests : PageCreated(r)
    \/ \E r \in Requests : PageUpdated(r)

OverlapSpec == Init /\ [][OverlapNext]_vars

\* ------------------------------------------- synthesis request construction
\* ImageGenerator.generateImage and OpenAIClient.generateImage / _imageEdit up
\* to the fetch, as functions of the subject kind, the aspect ratio and the
\* converted reference images.

GeneratorTypes == {"character", "scene", "creature", "item"}

\* The three aspect ratios the form offers, and a value that is none of them.
AspectRatios == {"square", "landscape", "portrait", "banner"}

\* Reference images as data URIs, with different content.
DataURIs ==
    { [prefix |-> "data:image/png;base64", data |-> << "Q", "Q", "=", "=" >>],
      [prefix |-> "data:image/png;base64", data |-> << "Q", "g", "=", "=" >>] }

\* The size map with the sizes of landscape and portrait exchanged.
_mapAspectRatioToSizeExchanged(aspectRatio) ==
    IF aspectRatio = "landscape" THEN "1024x1536"
    ELSE IF aspectRatio = "portrait" THEN "1536x1024"
    ELSE "1024x1024"

\* _mapAspectRatioToSize: sizeMap[aspectRatio] || '1024x1024'
_mapAspectRatioToSize(aspectRatio) ==
    IF aspectRatio = "landscape" THEN "1536x1024"
    ELSE IF aspectRatio = "portrait" THEN "1024x1536"
    ELSE "1024x1024"

\* getPrompt of the generator createGenerator gives for the type: the
\* template of the type around the description.
getPrompt(type, description) == [template |-> type, description |-> description]

\* _imageEdit setting the one field 'image' anew for each reference image, so
\* that the last one is the only part.
ImagePartsLastOnly(refs) ==
    << [name |-> "image", blob |-> Atob(refs[Len(refs)].data).value,
        filename |-> Len(refs) - 1] >>

\* _imageEdit: one 'image' part per reference image, in the order of the
\* list: the data after the comma, decoded by atob.
ImageParts(refs) ==
    [i \in 1..Len(refs) |->
        [name |-> "image", blob |-> Atob(refs[i].data).value, filename |-> i - 1]]

\* OpenAIClient.generateImage: the request of _imageEdit (multipart form, n
\* is the field '1') or of _imageGeneration (JSON body).
SynthesisRequest(prompt, refs, size) ==
    IF Len(refs) > 0
    THEN [endpoint |-> "images.edits", body |-> "multipart",
          fields |-> [prompt |-> prompt, size |-> size, quality |-> "medium",
                      background |-> "transparent", n |-> 1],
          parts |-> ImageParts(refs)]
    ELSE [endpoint |-> "images.generations", body |-> "json",
          fields |-> [prompt |-> prompt, size |-> size, quality |-> "medium",
                      background |-> "transparent", n |-> 1],
          parts |-> << >>]

ProbeInputs ==
    [stage : {"generator"}, type : GeneratorTypes, aspectRatio : AspectRatios,
     referenceImages : SeqsUpTo(DataURIs, MaxProbeReferences)]

leaveProgramAlone ==
    /\ UNCHANGED settingsVars
    /\ UNCHANGED requestVars
    /\ UNCHANGED QuickbrushCore
    /\ UNCHANGED overlapVars
    /\ UNCHANGED bixbyVars

\* ImageGenerator.generateImage up to client.generateImage: the size and the
\* prompt.
GeneratorBuildsArguments ==
    /\ probe.stage = "generator"
    /\ probe' = [stage |-> "client", type |-> probe.type,
                 aspectRatio |-> probe.aspectRatio,
                 referenceImages |-> probe.referenceImages,
                 size |-> _mapAspectRatioToSize(probe.aspectRatio),
                 prompt |-> getPrompt(probe.type, <<"d">>)]
    /\ leaveProgramAlone

\* OpenAIClient.generateImage up to the fetch.
ClientBuildsRequest ==
    /\ probe.stage = "client"
    /\ probe' = [stage |-> "request", type |-> probe.type,
                 aspectRatio |-> probe.aspectRatio,
                 referenceImages |-> probe.referenceImages,
                 request |-> SynthesisRequest(probe.prompt, probe.referenceImages,
                                              probe.size)]
    /\ leaveProgramAlone

PayloadInit ==
    /\ InitDialog
    /\ InitOverlap
    /\ InitBixby
    /\ probe \in ProbeInputs

PayloadNext ==
    \/ GeneratorBuildsArguments
    \/ ClientBuildsRequest

PayloadSpec == PayloadInit /\ [][PayloadNext]_vars

\* -------------------------------------------------- the image through the codec
\* The local pathway from the provider's b64_json to the bytes of the file:
\* ImageGenerator.generateImage decodes it into a blob, _updateObject reads the
\* blob back as a data URL, takes the part after the comma and decodes it for
\* the save.

\* Characters of a payload: of the alphabet, the padding, and one that is
\* neither.
CodecChars == {"Q", "U", "/", "=", "!"}

\* The b64_json of a synthesis response that OpenAIClient.generateImage lets
\* through (an empty one is refused there).
CodecInputs ==
    [stage : {"b64_json"},
     b64_json : SeqsUpTo(CodecChars, MaxPayloadLen) \ {<< >>}]

\* FileReader.readAsDataURL of a blob of type image/png.
ReadAsDataURL(bytes) == << "data:image/png;base64", "," >> \o Btoa(bytes)

RECURSIVE UpToComma(_)
UpToComma(s) ==
    IF s = << >> \/ s[1] = "," THEN << >>
    ELSE << s[1] >> \o UpToComma(SubSeq(s, 2, Len(s)))

\* String.prototype.split(',')[1]: what lies between the first comma and the
\* second.
SplitComma1(s) ==
    UpToComma(SubSeq(s, Len(UpToComma(s)) + 2, Len(s)))

\* The onloadend handler resolving with the whole data URL.
BlobToBase64Unsplit(bytes) == ReadAsDataURL(bytes)

\* reader.onloadend: reader.result.split(',')[1]
BlobToBase64(bytes) == SplitComma1(ReadAsDataURL(bytes))

\* ImageGenerator.generateImage after the client returned: atob and the
\* charCodeAt loop into the blob, or atob's exception.
GeneratorDecodes ==
    /\ probe.stage = "b64_json"
    /\ probe' = IF Atob(probe.b64_json).threw
                THEN [stage |-> "thrown", b64_json |-> probe.b64_json]
                ELSE [stage |-> "blob", b64_json |-> probe.b64_json,
                      blob |-> Atob(probe.b64_json).value]
    /\ leaveProgramAlone

\* _updateObject: the blob through the FileReader into base64Image.
DialogEncodes ==
    /\ probe.stage = "blob"
    /\ probe' = [stage |-> "base64Image", b64_json |-> probe.b64_json,
                 blob |-> probe.blob, base64Image |-> BlobToBase64(probe.blob)]
    /\ leaveProgramAlone

\* _updateObject: atob(base64Image) and the bytes of the file to upload, or
\* the exception caught.
DialogDecodes ==
    /\ probe.stage = "base64Image"
    /\ probe' = IF Atob(probe.base64Image).threw
                THEN [stage |-> "caught", b64_json |-> probe.b64_json]
                ELSE [stage |-> "file", b64_json |-> probe.b64_json,
                      base64Image |-> probe.base64Image,
                      file |-> Atob(probe.base64Image).value]
    /\ leaveProgramAlone

CodecInit ==
    /\ InitDialog
    /\ InitOverlap
    /\ InitBixby
    /\ probe \in CodecInputs

CodecNext ==
    \/ GeneratorDecodes
    \/ DialogEncodes
    \/ DialogDecodes

CodecSpec == CodecInit /\ [][CodecNext]_vars

\* ------------------------------------------------ the refinement request
\* The local pathway from the form's prompt to the prompt JSON of the
\* refinement call: _updateObject, ImageGenerator.getDescription and
\* OpenAIClient.generateDescription up to its last fetch.

\* The value null; a prompt is a sequence of characters.
JSNull == << "null" >>

\* What the form's prompt field can hold: nothing, whitespace, a text.
Prompts == {Blank, << " " >>, << "p" >>, << "p", "q" >>}

\* x || fallback for a string or null x.
OrElse(x, fallback) == IF x = Blank \/ x = JSNull THEN fallback ELSE x

\* getDefaultContextPrompt of the generator of the type; the scene generator's
\* is ''.
getDefaultContextPrompt(type) ==
    IF type = "character" THEN << "Generate a physical description of a character." >>
    ELSE IF type = "scene" THEN Blank
    ELSE IF type = "creature" THEN << "Generate a physical description of a creature." >>
    ELSE << "Generate a physical description of the item." >>

\* The context prompt with the default of the type taken first and the
\* caller's prompt only where the default is ''.
ContextPromptDefaultFirst(type, prompt) == OrElse(getDefaultContextPrompt(type), prompt)

\* getDescription: prompt || this.getDefaultContextPrompt()
ContextPrompt(type, prompt) == OrElse(prompt, getDefaultContextPrompt(type))

RefinementInputs ==
    [stage : {"form"}, generation_type : GeneratorTypes, prompt : Prompts,
     text : {<< "d" >>, << " ", "d" >>},
     referenceImages : SeqsUpTo(DataURIs, MaxProbeReferences)]

\* _updateObject, local branch: generator.getDescription(formData.text,
\* formData.prompt || null, base64ReferenceImages).
DialogCallsGetDescription ==
    /\ probe.stage = "form"
    /\ probe' = [stage |-> "getDescription", form |-> probe,
                 type |-> probe.generation_type, text |-> probe.text,
                 prompt |-> OrElse(probe.prompt, JSNull),
                 referenceImages |-> probe.referenceImages]
    /\ leaveProgramAlone

\* getDescription: the arguments of client.generateDescription.
GetDescriptionCallsClient ==
    /\ probe.stage = "getDescription"
    /\ probe' = [stage |-> "generateDescription", form |-> probe.form,
                 systemPrompt |-> probe.type, userText |-> probe.text,
                 contextPrompt |-> ContextPrompt(probe.type, probe.prompt),
                 referenceImages |-> probe.referenceImages]
    /\ leaveProgramAlone

\* generateDescription: the prompt JSON of the refinement call, after the
\* reference images were described or not.
ClientBuildsRefinement ==
    /\ probe.stage = "generateDescription"
    /\ \E imageDescription_ \in {Sentinel, << "i" >>} :
          /\ (probe.referenceImages = << >>) => imageDescription_ = Sentinel
          /\ probe' = [stage |-> "chat.refine", form |-> probe.form,
                       system |-> probe.systemPrompt,
                       promptJson |->
                           [text |-> probe.userText,
                            reference_images_description |-> imageDescription_,
                            prompt |-> probe.contextPrompt]]
    /\ leaveProgramAlone

RefinementInit ==
    /\ InitDialog
    /\ InitOverlap
    /\ InitBixby
    /\ probe \in RefinementInputs

RefinementNext ==
    \/ DialogCallsGetDescription
    \/ GetDescriptionCallsClient
    \/ ClientBuildsRefinement

RefinementSpec == RefinementInit /\ [][RefinementNext]_vars

\* ---------------------------------------------------------- link and unlink
\* pollForLinkCompletion and unlink step by step, every await a step of its
\* own: the status request, the two game.settings.set calls of each, any of
\* which can be rejected (the settings are world settings, saved through the
\* server).  linkOp holds the position of the running operation, the loop
\* variable, the status requests issued so far, the response being stored,
\* how the last operation ended, and whether an unlink has completed with no
\* link completed since.

MsgLinkExpired == << "Link code expired. Please try again." >>
MsgLinkTimedOut == << "Linking timed out. Please try again." >>

\* Bodies of a link-status response that are not JSON.
PlainBodies == {"<html>", "Link expired"}

\* What response.json() rejects with: the message quotes the body.
JsonSyntaxError(body) ==
    [name |-> "SyntaxError",
     message |-> << "Unexpected token", body, "is not valid JSON" >>]

\* What a rejected game.settings.set throws.
SettingRejected == [name |-> "Error", message |-> << "The setting could not be saved" >>]

\* The responses of GET /api/auth/link-status: the fetch rejects, the body is
\* not JSON, or it is JSON with a status, a token or none, and the user.
PollResponses ==
    {[kind |-> "throw"]}
    \cup {[kind |-> "badjson", body |-> b] : b \in PlainBodies}
    \cup {[kind |-> "json", status |-> st, token |-> t, user |-> u] :
             st \in {"pending", "expired", "completed"}, t \in Tokens \cup {""},
             u \in Accounts}

NoData == [kind |-> "none"]
NoResult == [kind |-> "none"]

\* error.message.includes('expired'), over the texts a message is made of.
IncludesExpired(message) ==
    \E i \in 1..Len(message) :
        message[i] \in {"Link code expired. Please try again.", "Link expired"}

LinkIdle(result, unlinked) ==
    [op |-> "idle", attempt |-> 0, requests |-> 0, data |-> NoData,
     result |-> result, unlinked |-> unlinked]

\* The for loop of pollForLinkCompletion going to its next turn, or the throw
\* behind it.
NextAttempt ==
    IF linkOp.attempt + 1 < MaxAttempts
    THEN [linkOp EXCEPT !.op = "poll", !.attempt = @ + 1, !.data = NoData]
    ELSE LinkIdle(Threw(Error(MsgLinkTimedOut)), linkOp.unlinked)

\* The catch block of the loop: an error whose message includes 'expired' is
\* thrown on, any other is logged and the loop goes on.
PollCatch(error) ==
    IF IncludesExpired(error.message)
    THEN LinkIdle(Threw(error), linkOp.unlinked)
    ELSE NextAttempt

leaveRequestsAlone ==
    /\ UNCHANGED << openaiApiKey, useServerMode, QuickbrushCore >>
    /\ UNCHANGED requestVars
    /\ UNCHANGED otherVars

\* handleLinkAccount -> startLinking -> pollForLinkCompletion: the loop is
\* entered.  The account dialog offers linking while no token is stored.
PollStart ==
    /\ linkOp.op = "idle"
    /\ ~isLinked
    /\ linkOp' = [linkOp EXCEPT !.op = "poll", !.result = NoResult,
                                !.attempt = 0, !.requests = 0]
    /\ UNCHANGED << wizzlethorpeToken, wizzlethorpeAccount >>
    /\ leaveRequestsAlone

\* One turn of the loop up to its first settings.set: the timer, the status
\* request and its body.
PollStatus(resp) ==
    /\ linkOp.op = "poll"
    /\ LET polled == [linkOp EXCEPT !.requests = @ + 1]
       IN  linkOp' =
             IF resp.kind = "throw" THEN
                 [PollCatch(FetchFailed) EXCEPT !.requests = polled.requests]
             ELSE IF resp.kind = "badjson" THEN
                 [PollCatch(JsonSyntaxError(resp.body)) EXCEPT !.requests = polled.requests]
             ELSE IF resp.status = "completed" /\ resp.token # "" THEN
                 [polled EXCEPT !.op = "storeToken", !.data = resp]
             ELSE IF resp.status = "expired" THEN
                 [PollCatch(Error(MsgLinkExpired)) EXCEPT !.requests = polled.requests]
             ELSE [NextAttempt EXCEPT !.requests = polled.requests]
    /\ UNCHANGED << wizzlethorpeToken, wizzlethorpeAccount >>
    /\ leaveRequestsAlone

\* await game.settings.set(MODULE_ID, 'wizzlethorpeToken', data.token)
PollStoreToken(ok) ==
    /\ linkOp.op = "storeToken"
    /\ IF ok
       THEN /\ wizzlethorpeToken' = linkOp.data.token
            /\ linkOp' = [linkOp EXCEPT !.op = "storeAccount"]
       ELSE /\ UNCHANGED wizzlethorpeToken
            /\ linkOp' = [PollCatch(SettingRejected) EXCEPT !.requests = linkOp.requests]
    /\ UNCHANGED wizzlethorpeAccount
    /\ leaveRequestsAlone

\* await game.settings.set(MODULE_ID, 'wizzlethorpeAccount', ...), and the
\* return of data.user.
PollStoreAccount(ok) ==
    /\ linkOp.op = "storeAccount"
    /\ IF ok
       THEN /\ wizzlethorpeAccount' = linkOp.data.user
            /\ linkOp' = [LinkIdle(Returned(linkOp.data.user), FALSE)
                             EXCEPT !.requests = linkOp.requests]
       ELSE /\ UNCHANGED wizzlethorpeAccount
            /\ linkOp' = [PollCatch(SettingRejected) EXCEPT !.requests = linkOp.requests]
    /\ UNCHANGED wizzlethorpeToken
    /\ leaveRequestsAlone

\* handleUnlinkAccount, confirmed: unlink is called.  The account dialog
\* offers unlinking while a token is stored.
UnlinkStart ==
    /\ linkOp.op = "idle"
    /\ isLinked
    /\ linkOp' = [linkOp EXCEPT !.op = "unlinkToken", !.result = NoResult,
                                !.requests = 0]
    /\ UNCHANGED << wizzlethorpeToken, wizzlethorpeAccount >>
    /\ leaveRequestsAlone

\* unlink: await game.settings.set(MODULE_ID, 'wizzlethorpeToken', '')
UnlinkSetToken(ok) ==
    /\ linkOp.op = "unlinkToken"
    /\ IF ok
       THEN /\ wizzlethorpeToken' = ""
            /\ linkOp' = [linkOp EXCEPT !.op = "unlinkAccount"]
       ELSE /\ UNCHANGED wizzlethorpeToken
            /\ linkOp' = LinkIdle(Threw(SettingRejected), linkOp.unlinked)
    /\ UNCHANGED wizzlethorpeAccount
    /\ leaveRequestsAlone

\* unlink: await game.settings.set(MODULE_ID, 'wizzlethorpeAccount', '')
UnlinkSetAccount(ok) ==
    /\ linkOp.op = "unlinkAccount"
    /\ IF ok
       THEN /\ wizzlethorpeAccount' = NoAccount
            /\ linkOp' = LinkIdle(Returned("unlinked"), TRUE)
       ELSE /\ UNCHANGED wizzlethorpeAccount
            /\ linkOp' = LinkIdle(Threw(SettingRejected), linkOp.unlinked)
    /\ UNCHANGED wizzlethorpeToken
    /\ leaveRequestsAlone

\* The settings as registered but for the key and the server mode, which the
\* GM has set one way or the other; no dialog is open.
LinkInit ==
    /\ wizzlethorpeToken = ""
    /\ wizzlethorpeAccount = NoAccount
    /\ openaiApiKey \in ApiKeys \cup {""}
    /\ useServerMode \in BOOLEAN
    /\ linkOp = LinkIdle(NoResult, FALSE)
    /\ QuickbrushCore = "null"
    /\ pc = "idle"
    /\ referenceImages = << >>
    /\ targetDocument = "none"
    /\ formData = NoForm
    /\ mode = NoMode
    /\ convIndex = 0
    /\ base64ReferenceImages = << >>
    /\ imageDescription = << >>
    /\ refinedDescription = << >>
    /\ base64Image = << >>
    /\ err = NoError
    /\ notifications = {}
    /\ calls = << >>
    /\ inflight = {}
    /\ saved = {}
    /\ InitOverlap
    /\ InitBixby
    /\ probe = NoProbe

PollSteps ==
    \/ \E resp \in PollResponses : PollStatus(resp)
    \/ \E ok \in BOOLEAN : PollStoreToken(ok)
    \/ \E ok \in BOOLEAN : PollStoreAccount(ok)

LinkNext ==
    \/ PollStart
    \/ PollSteps
    \/ UnlinkStart
    \/ \E ok \in BOOLEAN : UnlinkSetToken(ok)
    \/ \E ok \in BOOLEAN : UnlinkSetAccount(ok)

LinkSpec == LinkInit /\ [][LinkNext]_vars

\* The timer fires, the status request is answered and a settings.set is
\* settled, each in the end.
LinkLiveSpec == LinkSpec /\ WF_vars(PollSteps)

\* ------------------------------------------------------ Bixby's Cocktails
\* loadCocktailData, called from the menu, the mixer and the macros; a call
\* can begin while another awaits its fetch.  The account can be linked and
\* unlinked in between.

\* What GET /api/cocktails can answer with; the menu is the server's to change.
CocktailMenus == {[cocktails |-> "menu A"], [cocktails |-> "menu B"]}

CocktailResponses ==
    {[kind |-> "throw"], [kind |-> "notOk"], [kind |-> "badjson"]}
    \cup {[kind |-> "ok", data |-> d] : d \in CocktailMenus}

MsgCocktailsFailed == << "Failed to load cocktail data" >>

\* loadCocktailData up to its fetch: the cached data is returned, or the
\* request is sent with the token, if there is one.
LoadCocktailData(l) ==
    /\ loads[l].pc # "fetching"
    /\ loads' = [loads EXCEPT ![l] =
                    IF cocktailData # NoCocktailData
                    THEN [pc |-> "returned", value |-> cocktailData, fetched |-> FALSE]
                    ELSE [pc |-> "fetching", bearer |-> getToken]]
    /\ UNCHANGED << cocktailData, worldItems, lastImport >>
    /\ UNCHANGED settingsVars
    /\ UNCHANGED requestVars
    /\ UNCHANGED << QuickbrushCore, overlapping, imports, journals, probe >>

\* loadCocktailData after its fetch: the body is stored and returned, or the
\* error is reported and thrown on.
CocktailResponse(l, resp) ==
    /\ loads[l].pc = "fetching"
    /\ IF resp.kind = "ok"
       THEN /\ cocktailData' = resp.data
            /\ loads' = [loads EXCEPT ![l] =
                            [pc |-> "returned", value |-> resp.data, fetched |-> TRUE]]
       ELSE /\ UNCHANGED cocktailData
            /\ loads' = [loads EXCEPT ![l] =
                            [pc |-> "threw",
                             error |-> IF resp.kind = "throw" THEN FetchFailed
                                       ELSE IF resp.kind = "notOk"
                                       THEN Error(MsgCocktailsFailed)
                                       ELSE JsonSyntaxError("<html>")]]
    /\ UNCHANGED << worldItems, lastImport >>
    /\ UNCHANGED settingsVars
    /\ UNCHANGED requestVars
    /\ UNCHANGED << QuickbrushCore, overlapping, imports, journals, probe >>

\* The account is linked or unlinked, one setting at a time.
AccountChanges ==
    \/ \E user \in Accounts : LinkStoreToken(user)
    \/ LinkStoreAccount
    \/ UnlinkClearToken
    \/ UnlinkClearAccount

CocktailNext ==
    \/ \E l \in 1..NumLoads : LoadCocktailData(l)
    \/ \E l \in 1..NumLoads, resp \in CocktailResponses : CocktailResponse(l, resp)
    \/ AccountChanges

CocktailSpec == Init /\ [][CocktailNext]_vars

\* ------------------------------------------------------------ item import
\* importCocktails and importAll: the items of the response are created in
\* the world or, where one is found by id or by name within the folder,
\* written over it.  game.items is kept in the order of creation, which is
\* the order find goes through it.

ItemIds == {"c1", "c2"}
ItemNames == {"Mead", "Ale"}
CocktailFolder == "Bixby's Cocktails"
IngredientFolder == "Bixby's Ingredients"

\* The items of a response as sent: _id and name.
FoundryItems == [_id : ItemIds, name : ItemNames]
ItemLists == SeqsUpTo(FoundryItems, MaxItems)

\* The responses of GET /api/cocktails/foundry?include=cocktails.
ImportResponses ==
    {[kind |-> "throw"], [kind |-> "error"]}
    \cup {[kind |-> "ok", cocktails |-> c] : c \in ItemLists}

\* The responses of GET /api/cocktails/foundry?include=all.
ImportAllResponses ==
    {[kind |-> "throw"], [kind |-> "error"]}
    \cup {[kind |-> "ok", cocktails |-> c, ingredients |-> i] :
             c \in ItemLists, i \in SeqsUpTo(FoundryItems, 1)}

\* game.items.get(id): the index of the item, 0 for none.
ItemsGet(world, id) ==
    IF \E k \in 1..Len(world) : world[k]._id = id
    THEN CHOOSE k \in 1..Len(world) : world[k]._id = id
    ELSE 0

\* game.items.find(i => i.name === name && i.folder?.id === folder.id): the
\* index of the first such item, 0 for none.
ItemsFind(world, name, folder) ==
    LET found == {k \in 1..Len(world) : world[k].name = name /\ world[k].folder = folder}
    IN  IF found = {} THEN 0
        ELSE CHOOSE k \in found : \A j \in found : k <= j

\* The lookup of the loop: by id first, then by name within the folder.
Existing(world, itemData, folder) ==
    IF ItemsGet(world, itemData._id) # 0
    THEN ItemsGet(world, itemData._id)
    ELSE ItemsFind(world, itemData.name, folder)

RECURSIVE ImportItems(_, _, _)
\* The import loop over the items left: existing.update(itemData), which
\* leaves the item its id, or Item.create(itemData, {keepId: true}).
ImportItems(items, folder, acc) ==
    IF items = << >> THEN acc
    ELSE LET itemData == [_id |-> items[1]._id, name |-> items[1].name,
                          folder |-> folder]
             k == Existing(acc.world, itemData, folder)
         IN  ImportItems(
                 Tail(items), folder,
                 IF k # 0
                 THEN [world |-> [acc.world EXCEPT ![k] =
                                     [itemData EXCEPT !._id = acc.world[k]._id]],
                       created |-> acc.created, updated |-> acc.updated + 1]
                 ELSE [world |-> Append(acc.world, itemData),
                       created |-> acc.created + 1, updated |-> acc.updated])

Imported(fn, data, acc) ==
    [run |-> TRUE, fn |-> fn, outcome |-> "imported", data |-> data,
     created |-> acc.created, updated |-> acc.updated]

NotImported(fn, outcome) == [run |-> TRUE, fn |-> fn, outcome |-> outcome]

leaveAllButItems ==
    /\ UNCHANGED << cocktailData, loads >>
    /\ UNCHANGED settingsVars
    /\ UNCHANGED requestVars
    /\ UNCHANGED << QuickbrushCore, overlapping, imports, journals, probe >>

\* importCocktails: the token, the fetch, the confirmation, the loop and the
\* notification of the counts.
ImportCocktails(resp, confirmed) ==
    /\ IF getToken = "" THEN
           /\ lastImport' = NotImported("importCocktails", "notLinked")
           /\ UNCHANGED worldItems
       ELSE IF resp.kind # "ok" THEN
           /\ lastImport' = NotImported("importCocktails", "failed")
           /\ UNCHANGED worldItems
       ELSE IF resp.cocktails = << >> THEN
           /\ lastImport' = NotImported("importCocktails", "nothing")
           /\ UNCHANGED worldItems
       ELSE IF ~confirmed THEN
           /\ lastImport' = NotImported("importCocktails", "declined")
           /\ UNCHANGED worldItems
       ELSE LET acc == ImportItems(resp.cocktails, CocktailFolder,
                                   [world |-> worldItems, created |-> 0, updated |-> 0])
            IN  /\ worldItems' = acc.world
                /\ lastImport' = Imported("importCocktails", resp, acc)
    /\ leaveAllButItems

\* importAll: as importCocktails, with the ingredients after the cocktails
\* and one pair of counts for both.
ImportAll(resp, confirmed) ==
    /\ IF getToken = "" THEN
           /\ lastImport' = NotImported("importAll", "notLinked")
           /\ UNCHANGED worldItems
       ELSE IF resp.kind # "ok" THEN
           /\ lastImport' = NotImported("importAll", "failed")
           /\ UNCHANGED worldItems
       ELSE IF resp.cocktails = << >> /\ resp.ingredients = << >> THEN
           /\ lastImport' = NotImported("importAll", "nothing")
           /\ UNCHANGED worldItems
       ELSE IF ~confirmed THEN
           /\ lastImport' = NotImported("importAll", "declined")
           /\ UNCHANGED worldItems
       ELSE LET c == ImportItems(resp.cocktails, CocktailFolder,
                                 [world |-> worldItems, created |-> 0, updated |-> 0])
                acc == ImportItems(resp.ingredients, IngredientFolder, c)
            IN  /\ worldItems' = acc.world
                /\ lastImport' = Imported("importAll", resp, acc)
    /\ leaveAllButItems

ImportNext ==
    \/ \E resp \in ImportResponses, confirmed \in BOOLEAN : ImportCocktails(resp, confirmed)
    \/ \E resp \in ImportAllResponses, confirmed \in BOOLEAN : ImportAll(resp, confirmed)
    \/ AccountChanges

ImportSpec == Init /\ [][ImportNext]_vars

\* ------------------------------------------------------------------ claims

RECURSIVE CountOps(_, _)
\* How many of the calls cs have their op in ops.
CountOps(cs, ops) ==
    IF cs = << >> THEN 0
    ELSE (IF Head(cs).op \in ops THEN 1 ELSE 0) + CountOps(Tail(cs), ops)

ValidForm(fd) == Trim(fd.text) # Blank /\ Trim(fd.image_name) # Blank

\* The account state as the specification names it.
linked == wizzlethorpeToken # ""
tierLevel == IF wizzlethorpeAccount = NoAccount THEN 0 ELSE wizzlethorpeAccount.tierCents
serverModePreferred == useServerMode
localApiKeyPresent == openaiApiKey # ""

\* The priority rule of the resolver, first match wins.
PriorityRule ==
    IF linked /\ tierLevel >= 500 /\ serverModePreferred THEN "ServerPooled"
    ELSE IF linked /\ localApiKeyPresent THEN "ServerBrokeredBYOK"
    ELSE IF ~linked /\ localApiKeyPresent THEN "LocalDirectBYOK"
    ELSE "none"

\* The pathway the running request was started on, by the branch its locals
\* select.
PathwayOf(m) ==
    IF m.shouldUseAPI THEN "ServerPooled"
    ELSE IF m.shouldUseBYOKAPI THEN "ServerBrokeredBYOK"
    ELSE IF m.shouldUseLocalBYOK THEN "LocalDirectBYOK"
    ELSE "none"

\* The pathway the calls of the request show: the backend without or with the
\* local key, or the provider directly.
PathwayOfCall(call) ==
    IF call.op = "api.generate"
    THEN (IF call.apiKey = "" THEN "ServerPooled" ELSE "ServerBrokeredBYOK")
    ELSE "LocalDirectBYOK"

ConfigurationErrors == {Note("error", MsgNoAccountNoKey), Note("error", MsgNeedsAlchemist)}

\* C2: a valid submit in an account state with no viable strategy raises a
\* configuration error, the request does not start and no network call is
\* issued.
C2_UnconfiguredReportsError ==
    [][\A fd \in FormDatas :
          (Submit(fd) /\ ValidForm(fd) /\ PriorityRule = "none") =>
              /\ notifications' \cap ConfigurationErrors # {}
              /\ pc' = "dialog"
              /\ calls' = << >>]_vars

\* The responses of the reference-image call that count as its failure: the
\* fetch throws, a non-2xx status, no first choice, no content.
DescribeFails(resp) ==
    \/ resp.kind \in {"throw", "error"}
    \/ resp.kind = "ok" /\ ~resp.choices
    \/ resp.kind = "ok" /\ resp.choices /\ resp.content = Blank

\* C3: whatever the reference-image call answers, the request goes on to the
\* refinement call; after a failed reference-image call the refinement call
\* carries the sentinel as the reference description; and a request never
\* ends failed between the two calls.
C3_ReferenceDescriptionFailureIsolated ==
    /\ [][\A resp \in ChatResponses :
            DescribeImagesResponse(resp) =>
                /\ pc' = "refineWait"
                /\ calls'[Len(calls')].op = "chat.refine"
                /\ DescribeFails(resp) =>
                      calls'[Len(calls')].reference_images_description = Sentinel
                /\ ~DescribeFails(resp) =>
                      calls'[Len(calls')].reference_images_description = resp.content]_vars
    /\ [](CountOps(calls, {"chat.describeImages"}) > 0 /\ pc \in {"failed", "done"}
            => CountOps(calls, {"chat.refine"}) > 0)

\* C3 witness: a request whose reference-image call failed has completed:
\* the sentinel went into the refinement call and the image is saved.
C3_Witness ==
    /\ pc = "done"
    /\ CountOps(calls, {"chat.describeImages"}) = 1
    /\ imageDescription = Sentinel
    /\ <<"gallery">> \in saved

EmptyDescription == Error(<<"Parsed description is empty.">>)

\* C4: a refinement response whose text is empty after trimming fails the
\* request with the empty-description error, and a request that failed with
\* it has issued no synthesis call and saved nothing.
C4_EmptyDescriptionAborts ==
    /\ [][\A resp \in ChatResponses :
            (RefineResponse(resp) /\ resp.kind = "ok" /\ resp.choices
                /\ Trim(resp.content) = Blank) =>
                /\ pc' = "failed"
                /\ err' = EmptyDescription
                /\ calls' = calls]_vars
    /\ [](err = EmptyDescription =>
            /\ pc = "failed"
            /\ CountOps(calls, SynthOps) = 0
            /\ saved = {})

\* C4 witness: a request failed with the empty-description error after its
\* refinement call.
C4_Witness ==
    /\ pc = "failed"
    /\ err = EmptyDescription
    /\ CountOps(calls, {"chat.refine"}) = 1

\* C5: a request carrying more than 4 reference images is rejected before
\* any network call: it never leaves the dialog and issues no call.
C5_OverCapRejected ==
    Len(referenceImages) > MaxReferenceImages =>
        /\ pc \in {"idle", "dialog"}
        /\ calls = << >>

\* The place of a call in the pipeline; 0 for a call that is no step of it.
PipelineRank(op) ==
    IF op = "chat.describeImages" THEN 1
    ELSE IF op = "chat.refine" THEN 2
    ELSE IF op \in SynthOps THEN 3
    ELSE 0

\* C6: at most one call is in flight at any time; the calls of the pipeline
\* are issued in the order reference description, refinement, synthesis; the
\* refinement call is issued only when the reference-image call is over (and
\* after it, when the request has reference images), and the synthesis call
\* only when the refinement call is over and has given a description.
C6_PipelineSequential ==
    /\ Cardinality(inflight) <= 1
    /\ \A i, j \in 1..Len(calls) :
          (i < j /\ PipelineRank(calls[i].op) > 0 /\ PipelineRank(calls[j].op) > 0)
              => PipelineRank(calls[i].op) < PipelineRank(calls[j].op)
    /\ CountOps(calls, {"chat.refine"}) > 0 =>
          /\ "chat.describeImages" \notin inflight
          /\ Len(base64ReferenceImages) > 0 => CountOps(calls, {"chat.describeImages"}) > 0
    /\ CountOps(calls, SynthOps) > 0 =>
          /\ CountOps(calls, {"chat.refine"}) > 0
          /\ "chat.refine" \notin inflight
          /\ refinedDescription # Blank

\* C6 witness: the synthesis call in flight after the two calls before it.
C6_Witness ==
    /\ pc = "synthWait"
    /\ inflight = {"images.edits"}
    /\ CountOps(calls, {"chat.describeImages"}) = 1
    /\ CountOps(calls, {"chat.refine"}) = 1

\* The responses that count as a failure of the refinement and of the
\* synthesis, and the payloads that fail to decode.
RefinementFails(resp) ==
    \/ resp.kind \in {"throw", "error"}
    \/ resp.kind = "ok" /\ (~resp.choices \/ Trim(resp.content) = Blank)

SynthesisFails(resp) ==
    \/ resp.kind \in {"throw", "error"}
    \/ resp.kind = "ok" /\ resp.b64_json = Blank

DecodingFails(payload) == Atob(payload).threw

\* The step ended the request: it is failed, nothing is saved, no call is
\* issued and the error is in an error notification.
AbortedAndReported ==
    /\ pc' = "failed"
    /\ inflight' = {}
    /\ calls' = calls
    /\ saved' = {}
    /\ NoteError(err') \in notifications'

ErrorCarries(text) == \E i \in 1..Len(err'.message) : err'.message[i] = text

\* C7: a failed refinement, a failed synthesis, a failed generate call of the
\* backend or a payload that does not decode aborts the request; the error is
\* reported with the provider's message when the response has one; and a
\* failed request runs no later step: nothing is uploaded, entered in the
\* gallery or set on the target document.
C7_FailureAborts ==
    /\ [][/\ \A resp \in ChatResponses :
               (RefineResponse(resp) /\ RefinementFails(resp)) =>
                   /\ AbortedAndReported
                   /\ (resp.kind = "error" /\ resp.body = "message")
                         => ErrorCarries(ProviderText)
          /\ \A resp \in ImageResponses :
               (SynthResponse(resp)
                  /\ (SynthesisFails(resp) \/ DecodingFails(resp.b64_json))) =>
                   /\ AbortedAndReported
                   /\ (resp.kind = "error" /\ resp.body = "message")
                         => ErrorCarries(ProviderText)
          /\ \A resp \in GenerateResponses :
               (GenerateResponse(resp)
                  /\ (resp.kind # "ok" \/ DecodingFails(resp.image))) =>
                   /\ AbortedAndReported
                   /\ (resp.kind = "error" /\ resp.message # "")
                         => ErrorCarries(resp.message)
          /\ pc = "failed" => \/ pc' = "failed" /\ saved' = saved /\ calls' = calls
                              \/ pc' = "dialog" /\ saved' = {} /\ calls' = << >>]_vars

\* C7 witness: a request failed at its synthesis call with the provider's
\* message, nothing saved.
C7_Witness ==
    /\ pc = "failed"
    /\ err = Error(<<"OpenAI API error: ", ProviderText>>)
    /\ CountOps(calls, SynthOps) = 1
    /\ saved = {}

\* The steps in which an operation of the request fails, the reference-image
\* call apart.
ImageLoadFails == \E outcome \in {"notOk", "throws"} : ConvertResponse(outcome)

FolderLookupFails == FolderDone("created")

TargetUpdateFails == UpdateDone(FALSE)

AbortingFailure ==
    \/ ImportResponse(FALSE)
    \/ \E resp \in GenerateResponses :
          GenerateResponse(resp) /\ (resp.kind # "ok" \/ DecodingFails(resp.image))
    \/ \E resp \in ChatResponses : RefineResponse(resp) /\ RefinementFails(resp)
    \/ \E resp \in ImageResponses :
          SynthResponse(resp) /\ (SynthesisFails(resp) \/ DecodingFails(resp.b64_json))
    \/ FolderDone("createFailed")
    \/ UploadDone(FALSE)
    \/ GalleryDone(FALSE)

ReportedAsError == pc' = "failed" /\ NoteError(err') \in notifications'

\* C8 as stated: every failed operation but the reference-image call,
\* the loading of a reference image among them, fails the request and is
\* reported as an error.
C8_OnlyReferenceDescriptionAbsorbed ==
    [][(ImageLoadFails \/ FolderLookupFails \/ TargetUpdateFails \/ AbortingFailure)
          => ReportedAsError]_vars

NotLinkedError == Error(<<"No Wizzlethorpe account linked">>)

\* C8 amended: a reference image that fails to load is left out and
\* the request goes on with the images before it, with no warning and no error
\* raised for the image; a failed lookup of the gallery folder is taken for a
\* missing folder; a failed update of the target document ends the request
\* done, image saved, with a warning; every other failed operation fails the
\* request and is reported as an error.
C8_AbsorbedFailures ==
    [][/\ ImageLoadFails =>
            /\ base64ReferenceImages' = base64ReferenceImages
            /\ pc' = "failed" => err' = NotLinkedError
            /\ pc' # "failed" =>
                  \A n \in notifications' \ notifications : n.level = "info"
       /\ FolderLookupFails => pc' = "upload" /\ notifications' = notifications
       /\ TargetUpdateFails =>
            /\ pc' = "done"
            /\ notifications' = notifications \cup {Note("warn", MsgImageNotSet)}
            /\ {<<"gallery">>} \subseteq saved'
       /\ AbortingFailure => ReportedAsError]_vars

\* C8 witness: a request done with fewer images converted than it was given.
C8_Witness ==
    /\ pc = "done"
    /\ convIndex = Len(referenceImages)
    /\ Len(base64ReferenceImages) < Len(referenceImages)

\* C9: no call of a provider or of the backend is issued twice in a
\* request and each reference image is fetched once; when a request has
\* failed nothing is in flight; a local request that is done has issued one
\* refinement call and one synthesis call, a brokered one a single generate
\* call.
C9_NoRetries ==
    /\ \A op \in {"chat.describeImages", "chat.refine", "api.generate", "core.import"} :
          CountOps(calls, {op}) <= 1
    /\ CountOps(calls, SynthOps) <= 1
    /\ CountOps(calls, {"image.fetch"}) <= Len(referenceImages)
    /\ pc = "failed" => inflight = {}
    /\ (pc = "done" /\ mode.shouldUseLocalBYOK) =>
          /\ CountOps(calls, {"chat.refine"}) = 1
          /\ CountOps(calls, SynthOps) = 1
          /\ CountOps(calls, {"api.generate"}) = 0
    /\ (pc = "done" /\ ~mode.shouldUseLocalBYOK) =>
          /\ CountOps(calls, {"api.generate"}) = 1
          /\ CountOps(calls, {"chat.refine"} \cup SynthOps) = 0

\* C9 witness: a local request done after one refinement and one synthesis.
C9_Witness ==
    /\ pc = "done"
    /\ mode.shouldUseLocalBYOK
    /\ CountOps(calls, {"chat.refine"}) = 1
    /\ CountOps(calls, {"images.generations"}) = 1

TypedDiscriminants == {"quota_exceeded", "subscription_required"}

\* The error a response with another discriminant and the same message gives.
GenericFailure(resp) ==
    Error(<<IF resp.message = "" THEN "Generation failed" ELSE resp.message>>)

DiscriminantText(d) ==
    IF d = "quota_exceeded" THEN "Weekly quota exceeded"
    ELSE "Subscription required for this feature"

NonSuccess(resp) == resp.kind = "error" \/ (resp.kind = "badjson" /\ ~resp.ok)

\* What an error made of a non-2xx response is to carry: the message of the
\* body, or the status text when the body has none or does not parse.
DirectErrorText(resp) == IF resp.body = "message" THEN ProviderText ELSE StatusText

BrokerErrorText(resp) ==
    IF resp.kind = "error" /\ resp.message # "" THEN resp.message ELSE StatusText

\* C11: the error of a non-2xx response carries the message of the body when
\* the body has one and the status text otherwise, for the refinement and the
\* synthesis call of the direct client and for the generate call of the
\* brokered client.
C11_NonSuccessCarriesProviderMessage ==
    [][/\ \A resp \in ChatResponses :
            (RefineResponse(resp) /\ resp.kind = "error")
                => (pc' = "failed" /\ ErrorCarries(DirectErrorText(resp)))
       /\ \A resp \in ImageResponses :
            (SynthResponse(resp) /\ resp.kind = "error")
                => (pc' = "failed" /\ ErrorCarries(DirectErrorText(resp)))
       /\ \A resp \in GenerateResponses :
            (GenerateResponse(resp) /\ NonSuccess(resp))
                => (pc' = "failed" /\ ErrorCarries(BrokerErrorText(resp)))]_vars

\* C12: a request started on a pathway of the backend, where the submit saw a
\* linked account, is not failed by an unlink that comes while it runs: it
\* never ends with the error of a missing account.
C12_SnapshotOfAccountState ==
    (mode.shouldUseAPI \/ mode.shouldUseBYOKAPI) => err # NotLinkedError

Finished == {r \in Requests : At(r, "done")}

EntriesOf(content) == {content[i] : i \in 1..Len(content)}

\* C13: whatever the interleaving of the requests, the world is as after
\* running them one after the other: once a request is done there is one
\* gallery journal with one Images page, and the page holds the entry of
\* every request that is done.
C13_OverlapAsSequential ==
    Finished # {} =>
        /\ Len(journals) = 1
        /\ Len(journals[1].images) = 1
        /\ Finished \subseteq EntriesOf(journals[1].images[1])

\* C14: over every interleaving of loadQuickbrushCore calls the import is
\* performed once: beyond the imports that failed, at most one import is ever
\* called.
C14_CoreImportedOnce == imports.issued - imports.failed <= 1

\* C15: a generate call of the backend has the local key in its body exactly
\* when the request is on the brokered BYOK pathway, and then it is the key of
\* the submit; on the pooled pathway the body has no key, whatever key is
\* configured.
C15_KeyOnlyOnBrokeredBYOK ==
    \A i \in 1..Len(calls) :
        calls[i].op = "api.generate" =>
            /\ (calls[i].apiKey # "") <=> (PathwayOf(mode) = "ServerBrokeredBYOK")
            /\ PathwayOf(mode) = "ServerBrokeredBYOK" => calls[i].apiKey = mode.openaiApiKey
            /\ PathwayOf(mode) = "ServerPooled" => calls[i].apiKey = ""

\* C15 witness: a pooled generate call in flight, without the key, of a
\* request submitted with a key configured.
C15_Witness ==
    /\ pc = "generateWait"
    /\ PathwayOf(mode) = "ServerPooled"
    /\ mode.openaiApiKey # ""
    /\ calls[Len(calls)].apiKey = ""

SizeOf(aspectRatio) ==
    CASE aspectRatio = "square" -> "1024x1024"
      [] aspectRatio = "landscape" -> "1536x1024"
      [] aspectRatio = "portrait" -> "1024x1536"

\* C16: for every subject kind, with and without reference images, the size
\* in the synthesis request is the size of the aspect ratio: square
\* 1024x1024, landscape 1536x1024, portrait 1024x1536.
C16_SizeFollowsAspectRatio ==
    (probe.stage = "request" /\ probe.aspectRatio \in {"square", "landscape", "portrait"})
        => probe.request.fields.size = SizeOf(probe.aspectRatio)

\* C16 witness: the request of a landscape scene with reference images, its
\* size 1536x1024.
C16_Witness ==
    /\ probe.stage = "request"
    /\ probe.type = "scene"
    /\ probe.aspectRatio = "landscape"
    /\ probe.referenceImages # << >>
    /\ probe.request.fields.size = "1536x1024"

\* C17: with reference images the synthesis request is a multipart body with
\* one binary part per reference image, in the order of the list, each the
\* decoded image; without, it is a JSON body with no binary part; in both n
\* is 1.
C17_OnePartPerReference ==
    probe.stage = "request" =>
        /\ probe.request.fields.n = 1
        /\ IF probe.referenceImages # << >>
           THEN /\ probe.request.body = "multipart"
                /\ Len(probe.request.parts) = Len(probe.referenceImages)
                /\ \A i \in 1..Len(probe.referenceImages) :
                      probe.request.parts[i].blob =
                          Atob(probe.referenceImages[i].data).value
           ELSE /\ probe.request.body = "json"
                /\ probe.request.parts = << >>

\* C17 witness: a multipart request with two parts of different content.
C17_Witness ==
    /\ probe.stage = "request"
    /\ Len(probe.request.parts) = 2
    /\ probe.request.parts[1].blob # probe.request.parts[2].blob

\* C18: a 2xx response without the expected field fails the request and
\* nothing is saved: a refinement response without a first choice, a synthesis
\* response without a base64 payload, a response of the backend without an
\* image.
C18_MissingFieldIsFatal ==
    [][/\ \A resp \in ChatResponses :
            (RefineResponse(resp) /\ resp.kind = "ok" /\ ~resp.choices)
                => AbortedAndReported
       /\ \A resp \in ImageResponses :
            (SynthResponse(resp) /\ resp.kind = "ok" /\ resp.b64_json = Blank)
                => AbortedAndReported
       /\ \A resp \in GenerateResponses :
            (GenerateResponse(resp) /\ resp.kind = "ok" /\ resp.image \in AbsentPayloads)
                => AbortedAndReported]_vars

Strategies == {"ServerPooled", "ServerBrokeredBYOK", "LocalDirectBYOK"}

\* The strategy flags a resolution has set.
FlagsSet(m) ==
    {f \in {"shouldUseAPI", "shouldUseBYOKAPI", "shouldUseLocalBYOK"} : m[f]}

\* C19: resolving the strategy is a function of the account state alone and is
\* defined on every account state: a valid submit can be taken in every dialog
\* state, it selects at most one of the three strategies, the selection is the
\* one the account state (linked, tier, server mode, key present) determines,
\* whatever else the program holds, and no stored setting is touched.
C19_ResolutionIsPureAndTotal ==
    /\ [][\A fd \in FormDatas :
            (Submit(fd) /\ ValidForm(fd)) =>
                /\ UNCHANGED settingsVars
                /\ Cardinality(FlagsSet(mode')) <= 1
                /\ PathwayOf(mode') \in Strategies \cup {"none"}
                /\ PathwayOf(mode') = PriorityRule
                /\ PathwayOf(mode') # "none" => mode'.openaiApiKey = openaiApiKey]_vars
    /\ [](pc = "dialog" => \A fd \in FormDatas : ENABLED Submit(fd))

\* C19 witness: a request resolved to ServerPooled on an account that also has
\* a local key, the settings as they were at the submit.
C19_Witness ==
    /\ pc \in {"convertWait", "generateWait"}
    /\ Len(calls) = 1
    /\ PathwayOf(mode) = "ServerPooled"
    /\ PriorityRule = "ServerPooled"
    /\ localApiKeyPresent
    /\ mode.openaiApiKey = openaiApiKey

\* C20: in every state of the dialog, whatever adds and removes came before,
\* the reference-image list holds at most 4 entries, and an add attempted at 4
\* leaves the list as it is.
C20_ReferenceListWithinCap ==
    /\ [](pc = "dialog" => Len(referenceImages) <= MaxReferenceImages)
    /\ [][\A path \in ImagePaths :
            (PickReferenceImage(path) /\ Len(referenceImages) = MaxReferenceImages)
                => UNCHANGED referenceImages]_vars

\* The calls that go to the third-party provider, each with a bearer key.
ProviderOps == {"chat.describeImages", "chat.refine", "images.edits", "images.generations"}

OpsIssued == {calls[i].op : i \in 1..Len(calls)}

\* C21: a request uses one pathway only: resolved to LocalDirectBYOK it never
\* calls the generate endpoint of the backend; resolved to ServerPooled or
\* ServerBrokeredBYOK it never calls the provider, so the local key never goes
\* to the provider as a bearer credential.
C21_OnePathwayPerRequest ==
    /\ PathwayOf(mode) = "LocalDirectBYOK" => "api.generate" \notin OpsIssued
    /\ PathwayOf(mode) \in {"ServerPooled", "ServerBrokeredBYOK"} =>
          /\ OpsIssued \cap ProviderOps = {}
          /\ "core.import" \notin OpsIssued
          /\ \A i \in 1..Len(calls) :
                calls[i].op = "api.generate" => calls[i].bearer # mode.openaiApiKey

\* C21 witness: a brokered BYOK request that finished, its one call past the
\* reference images the generate call of the backend.
C21_Witness ==
    /\ pc = "done"
    /\ PathwayOf(mode) = "ServerBrokeredBYOK"
    /\ referenceImages # << >>
    /\ OpsIssued = {"image.fetch", "api.generate"}

\* C22: the codec loses nothing: a payload the provider returned, decoded into
\* the blob, read back as base64 and decoded again gives the bytes of the
\* first decoding, so the file saved on the local pathway has the bytes of the
\* provider's payload; and the base64 read back, decoded and encoded again, is
\* itself.
C22_CodecLossless ==
    /\ probe.stage # "caught"
    /\ probe.stage = "file" =>
          /\ probe.file = Atob(probe.b64_json).value
          /\ Btoa(probe.file) = probe.base64Image

\* C22 witness: a payload of three bytes and one that is not in canonical
\* form (bits left over after its one byte) have both reached the file.
C22_Witness ==
    /\ probe.stage = "file"
    /\ \/ Len(probe.file) = 3
       \/ Len(probe.file) = 1 /\ probe.b64_json # probe.base64Image

\* C23: the context prompt of the refinement call is the caller's prompt
\* whenever that is not empty, and the default context prompt of the subject
\* kind otherwise.
C23_ContextPromptOrDefault ==
    probe.stage = "chat.refine" =>
        /\ probe.form.prompt # Blank => probe.promptJson.prompt = probe.form.prompt
        /\ probe.form.prompt = Blank =>
              probe.promptJson.prompt = getDefaultContextPrompt(probe.form.generation_type)

\* C23 witness: a character request with an explicit prompt, the refinement
\* call built with it and not with the character default.
C23_Witness ==
    /\ probe.stage = "chat.refine"
    /\ probe.form.generation_type = "character"
    /\ probe.form.prompt = << "p", "q" >>
    /\ probe.promptJson.prompt = << "p", "q" >>

\* No link and no unlink operation is running.
OutsideLinkOperations == linkOp.op = "idle"

\* C24: outside a link or unlink operation the token and the account info are
\* stored together or not at all, whatever linking attempts, failures during
\* linking and unlink calls came before.
C24_TokenAndAccountTogether ==
    OutsideLinkOperations =>
        ((wizzlethorpeToken # "") <=> (wizzlethorpeAccount # NoAccount))

Polling == linkOp.op \in {"poll", "storeToken", "storeAccount"}

\* How pollForLinkCompletion may end: the user returned, the expiry error,
\* the timeout error.
PollEndings ==
    {Returned(u) : u \in Accounts}
    \cup {Threw(Error(MsgLinkExpired)), Threw(Error(MsgLinkTimedOut))}

\* C25: pollForLinkCompletion terminates, issues at most maxAttempts status
\* requests, and ends by returning the user after a 'completed' status with a
\* token, with the expiry error, or with 'Linking timed out' once the attempts
\* are used up.
C25_PollingTerminates ==
    /\ [](linkOp.requests <= MaxAttempts)
    /\ [](OutsideLinkOperations /\ linkOp.requests > 0 => linkOp.result \in PollEndings)
    /\ [](linkOp.result = Threw(Error(MsgLinkTimedOut)) => linkOp.requests = MaxAttempts)
    /\ (Polling ~> OutsideLinkOperations)

\* The polling ends with an error while attempts are left.
StopsEarly ==
    /\ Polling
    /\ linkOp'.op = "idle"
    /\ linkOp'.result.threw
    /\ linkOp.attempt + 1 < MaxAttempts

\* C26: only an 'expired' status of the server stops the polling while attempts
\* are left; a status request that fails, a body that does not parse and a
\* failure to store the result are absorbed and the polling goes on.
C26_OnlyExpiredStatusStops ==
    [][/\ \A resp \in PollResponses :
            (PollStatus(resp) /\ StopsEarly) =>
                (resp.kind = "json" /\ resp.status = "expired")
       /\ \A ok \in BOOLEAN : PollStoreToken(ok) => ~StopsEarly
       /\ \A ok \in BOOLEAN : PollStoreAccount(ok) => ~StopsEarly]_vars

\* C27: once unlink has completed and until a link completes, the account
\* reads as unlinked (no token, no account info, no server generation) and a
\* request resolves to LocalDirectBYOK or to nothing, never to a pathway of
\* the backend.
C27_UnlinkedUntilLinked ==
    linkOp.unlinked =>
        /\ ~isLinked
        /\ getLinkedAccount = NoAccount
        /\ ~canUseServerGeneration
        /\ PriorityRule \in {"LocalDirectBYOK", "none"}
        /\ ~shouldUseAPI /\ ~shouldUseBYOKAPI

\* C28: the cocktail cache is written by a successful fetch only and never
\* again once it is filled: a failed fetch leaves it empty, and a call made
\* when it is filled returns the cached data without a request, whatever calls
\* and link or unlink operations came before.
C28_CacheWrittenOnce ==
    [][/\ cocktailData # NoCocktailData => cocktailData' = cocktailData
       /\ \A l \in 1..NumLoads, resp \in CocktailResponses :
             (CocktailResponse(l, resp) /\ resp.kind # "ok") =>
                 cocktailData' = cocktailData
       /\ \A l \in 1..NumLoads :
             (LoadCocktailData(l) /\ cocktailData # NoCocktailData) =>
                 loads'[l] = [pc |-> "returned", value |-> cocktailData,
                              fetched |-> FALSE]]_vars

\* The latest import run went through its loop.
ImportedLast == lastImport.run /\ lastImport.outcome = "imported"

\* The step is a confirmed run of the import that ran last, on the same
\* server data (an import leaves the settings alone, a link or unlink step
\* does not).
SameImportAgain ==
    /\ ImportedLast
    /\ UNCHANGED settingsVars
    /\ lastImport'.outcome = "imported"
    /\ lastImport'.fn = lastImport.fn
    /\ lastImport'.data = lastImport.data

ItemsFetched(data) ==
    Len(data.cocktails)
    + (IF "ingredients" \in DOMAIN data THEN Len(data.ingredients) ELSE 0)

\* C29: the import is idempotent: the same confirmed import run again on the
\* same server data creates no item, updates every one and leaves the items
\* of the world as the first run left them; and in each run created + updated
\* is the number of items fetched.
C29_ImportIdempotent ==
    /\ [][SameImportAgain =>
            /\ lastImport'.created = 0
            /\ lastImport'.updated = ItemsFetched(lastImport.data)
            /\ worldItems' = worldItems]_vars
    /\ [](ImportedLast =>
            lastImport.created + lastImport.updated = ItemsFetched(lastImport.data))

\* The step takes a request of a backend pathway to its call of
\* WizzlethorpeAPI.generate.
CallsGenerate ==
    /\ pc \in {"dialog", "convertWait"}
    /\ pc' \in {"generateWait", "failed"}
    /\ PathwayOf(mode') \in {"ServerPooled", "ServerBrokeredBYOK"}

\* C30: WizzlethorpeAPI.generate called while no token is stored fails with
\* 'No Wizzlethorpe account linked', issues no network request and leaves the
\* stored settings as they are; no generate request ever goes out without a
\* token.
C30_GenerateNeedsToken ==
    /\ [][(CallsGenerate /\ getToken = "") =>
            /\ pc' = "failed"
            /\ err' = NotLinkedError
            /\ calls' = calls
            /\ inflight' \subseteq inflight
            /\ UNCHANGED settingsVars]_vars
    /\ [](\A i \in 1..Len(calls) :
            calls[i].op = "api.generate" => calls[i].bearer # "")

\* C30 witness: a request of a backend pathway that failed with the error, the
\* token gone, no generate call among its calls.
C30_Witness ==
    /\ pc = "failed"
    /\ err = NotLinkedError
    /\ PathwayOf(mode) \in {"ServerPooled", "ServerBrokeredBYOK"}
    /\ wizzlethorpeToken = ""
    /\ "api.generate" \notin OpsIssued

=============================================================================
